---- MODULE Spec2Model ----
(***************************************************************************)
(* Access-control and flow-control gateway of the chat agent:              *)
(*   - RateLimiter (chat-agent/src/rate_limiter.py): sliding window of     *)
(*     operation timestamps per user, global degraded flag, per-user       *)
(*     concurrency counter;                                                *)
(*   - authenticate_user / authenticate_user_with_lockout                  *)
(*     (chat-agent/src/auth.py) over the User and LoginAttempt tables      *)
(*     (chat-agent/src/models.py).                                         *)
(*   - issue_token / validate_and_touch_token (chat-agent/src/tokens.py)   *)
(*     over the token columns of the User table;                           *)
(*   - process_tool_invocation (chat-agent/src/tools.py) over the          *)
(*     ToolInvocation table.                                               *)
(* Time is a discrete clock `now`: seconds for the rate limiter, minutes   *)
(* for the authenticator, hours for the tokens.  Each component has its    *)
(* own next-state relation and specification; the variables of the other   *)
(* components stay unchanged.                                              *)
(***************************************************************************)
EXTENDS Integers, Sequences, FiniteSets, TLC

VARIABLES
    now,              \* the wall clock read by datetime.now(timezone.utc)
    global_degraded,  \* RateLimiter.global_degraded
    state,            \* RateLimiter._state: user -> [ops, concurrent], keys created on access
    users,            \* table users: username -> [lockout_until, token, token_issued_at, last_activity_at]
    login_attempts,   \* table login_attempts: <<username, ip>> -> [count, last_attempt_at]
    binder_calls,     \* number of times the injected binder has been invoked
    token_count,      \* number of tokens secrets.token_hex has generated and issue_token stored
    expiries,         \* per token, the idle-expiry verdict validate_and_touch_token gave and what followed
    tool_invocations, \* table tool_invocations: the rows, in order of insertion
    executor_calls,   \* number of times the injected call_tool has been invoked
    backend_calls,    \* number of times the injected LLM caller has been invoked
    agent,            \* the get_server_status_and_tools call in progress
    threads,          \* the RateLimiter calls in progress, one per thread
    txn,              \* the database call in progress and what it has committed
    usage,            \* fileserver table usage: (username, date) -> request_count
    day,              \* date.today() of the fileserver
    fail_opens,       \* whether the middleware counted a request after check_rate_limit failed open
    ret               \* the last call: [op, user, ..., result]

vars == <<now, global_degraded, state, users, login_attempts, binder_calls,
          token_count, expiries, tool_invocations, executor_calls, backend_calls, agent,
          threads, txn, usage, day, fail_opens, ret>>

rlVars == <<global_degraded, state>>
authVars == <<users, login_attempts, binder_calls>>
tokVars == <<token_count, expiries>>
toolVars == <<tool_invocations, executor_calls>>
extVars == <<backend_calls, agent, threads, txn>>
fsVars == <<usage, day, fail_opens>>

None == "None"

(***************************************************************************)
(* Bounds of the model.                                                    *)
(***************************************************************************)
\* RateLimiter(max_ops, window_secs, max_concurrent): the constructor's
\* arguments, instantiated small.
max_ops == 2
window_secs == 1
max_concurrent == 2
\* The rate limiter's clock runs from 0 to MaxTime seconds: one second past
\* the window of an operation recorded at 0.
MaxTime == window_secs + 1

RLUsers == {"alice", "bob"}

(***************************************************************************)
(* RateLimiter                                                             *)
(***************************************************************************)
\* self.window = timedelta(seconds=window_secs)
window == window_secs

\* _UserState(ops=deque()), concurrent = 0: the defaultdict's factory
NewUserState == [ops |-> <<>>, concurrent |-> 0]

\* self._state[user]: the entry, as the defaultdict would create it
StateOf(s, user) == IF user \in DOMAIN s THEN s[user] ELSE NewUserState

\* self._state[user] = st (the access creates the key)
SetState(s, user, st) ==
    [u \in (DOMAIN s) \cup {user} |-> IF u = user THEN st ELSE s[u]]

\* _prune: while ops and ops[0] <= cutoff: ops.popleft()
RECURSIVE PopWhileOld(_, _)
PopWhileOld(ops, cutoff) ==
    IF ops # <<>> /\ Head(ops) <= cutoff
    THEN PopWhileOld(Tail(ops), cutoff)
    ELSE ops

\* A slip of _prune: `if` for `while`, so at most one timestamp is dropped.
PruneOne(ops, t) ==
    IF ops # <<>> /\ Head(ops) <= t - window THEN Tail(ops) ELSE ops

\* _prune(user, now): cutoff = now - self.window
prune(ops, t) == PopWhileOld(ops, t - window)

\* A slip of the limit test: >= for >.
OverLimitOrEqual(n) == n >= max_ops

\* len(st.ops) > self.max_ops
OverLimit(n) == n > max_ops

\* A slip of record_operation: no early return while degraded, and the flag
\* follows the current window (the breaker recovers by itself).
record_operation_recovering(user) ==
    LET st == StateOf(state, user)
        kept == prune(st.ops, now)
        ops1 == Append(kept, now)
    IN  /\ state' = SetState(state, user, [st EXCEPT !.ops = ops1])
        /\ global_degraded' = OverLimit(Len(ops1))
        /\ ret' = [op |-> "record_operation", user |-> user,
                   pruned |-> Len(st.ops) - Len(kept),
                   result |-> ~OverLimit(Len(ops1))]
        /\ UNCHANGED <<extVars, tokVars, fsVars, toolVars, now, authVars>>

\* A slip of record_operation: the user's state is fetched (and so created
\* and pruned) before the degraded test.
record_operation_state_first(user) ==
    LET st == StateOf(state, user)
        kept == prune(st.ops, now)
        ops1 == Append(kept, now)
    IN  IF global_degraded
        THEN /\ state' = SetState(state, user, [st EXCEPT !.ops = kept])
             /\ ret' = [op |-> "record_operation", user |-> user,
                        pruned |-> 0, result |-> FALSE]
             /\ UNCHANGED <<extVars, tokVars, fsVars, toolVars, now, global_degraded,
                            authVars>>
        ELSE /\ state' = SetState(state, user, [st EXCEPT !.ops = ops1])
             /\ global_degraded' = IF OverLimit(Len(ops1)) THEN TRUE ELSE global_degraded
             /\ ret' = [op |-> "record_operation", user |-> user,
                        pruned |-> Len(st.ops) - Len(kept),
                        result |-> ~OverLimit(Len(ops1))]
             /\ UNCHANGED <<extVars, tokVars, fsVars, toolVars, now, authVars>>

\* A slip of record_operation: the limit is tested before the append, and the
\* operation that exceeds it is not kept.
record_operation_test_first(user) ==
    IF global_degraded
    THEN /\ ret' = [op |-> "record_operation", user |-> user,
                    pruned |-> 0, result |-> FALSE]
         /\ UNCHANGED <<extVars, tokVars, fsVars, toolVars, now, rlVars, authVars>>
    ELSE LET st == StateOf(state, user)
             kept == prune(st.ops, now)
             over == OverLimit(Len(kept) + 1)
             ops1 == IF over THEN kept ELSE Append(kept, now)
         IN  /\ state' = SetState(state, user, [st EXCEPT !.ops = ops1])
             /\ global_degraded' = IF over THEN TRUE ELSE global_degraded
             /\ ret' = [op |-> "record_operation", user |-> user,
                        pruned |-> Len(st.ops) - Len(kept), result |-> ~over]
             /\ UNCHANGED <<extVars, tokVars, fsVars, toolVars, now, authVars>>

\* record_operation(user, now=None); ret.pruned is the number of timestamps
\* the call dropped from the user's window.
record_operation(user) ==
    IF global_degraded
    THEN /\ ret' = [op |-> "record_operation", user |-> user,
                    pruned |-> 0, result |-> FALSE]
         /\ UNCHANGED <<extVars, tokVars, fsVars, toolVars, now, rlVars, authVars>>
    ELSE LET st == StateOf(state, user)
             kept == prune(st.ops, now)
             ops1 == Append(kept, now)
         IN  /\ state' = SetState(state, user, [st EXCEPT !.ops = ops1])
             /\ global_degraded' = IF OverLimit(Len(ops1)) THEN TRUE ELSE global_degraded
             /\ ret' = [op |-> "record_operation", user |-> user,
                        pruned |-> Len(st.ops) - Len(kept),
                        result |-> ~OverLimit(Len(ops1))]
             /\ UNCHANGED <<extVars, tokVars, fsVars, toolVars, now, authVars>>

\* A slip of the cap test: > for >=.
AboveCap(c) == c > max_concurrent

\* st.concurrent >= self.max_concurrent
AtCap(c) == c >= max_concurrent

\* A slip of start_request: a login request does not bypass the degraded check.
start_request_no_bypass(user, is_login) ==
    IF global_degraded
    THEN /\ ret' = [op |-> "start_request", user |-> user,
                    is_login |-> is_login, result |-> FALSE]
         /\ UNCHANGED <<extVars, tokVars, fsVars, toolVars, now, rlVars, authVars>>
    ELSE LET st == StateOf(state, user)
         IN  IF AtCap(st.concurrent)
             THEN /\ state' = SetState(state, user, st)
                  /\ ret' = [op |-> "start_request", user |-> user,
                             is_login |-> is_login, result |-> FALSE]
                  /\ UNCHANGED <<extVars, tokVars, fsVars, toolVars, now, global_degraded, authVars>>
             ELSE /\ state' = SetState(state, user,
                                  [st EXCEPT !.concurrent = st.concurrent + 1])
                  /\ ret' = [op |-> "start_request", user |-> user,
                             is_login |-> is_login, result |-> TRUE]
                  /\ UNCHANGED <<extVars, tokVars, fsVars, toolVars, now, global_degraded, authVars>>

\* A slip of start_request: a login request bypasses the concurrency cap as
\* it bypasses the degraded check.
start_request_login_uncapped(user, is_login) ==
    IF global_degraded /\ ~is_login
    THEN /\ ret' = [op |-> "start_request", user |-> user,
                    is_login |-> is_login, result |-> FALSE]
         /\ UNCHANGED <<extVars, tokVars, fsVars, toolVars, now, rlVars, authVars>>
    ELSE LET st == StateOf(state, user)
         IN  IF AtCap(st.concurrent) /\ ~is_login
             THEN /\ state' = SetState(state, user, st)
                  /\ ret' = [op |-> "start_request", user |-> user,
                             is_login |-> is_login, result |-> FALSE]
                  /\ UNCHANGED <<extVars, tokVars, fsVars, toolVars, now, global_degraded, authVars>>
             ELSE /\ state' = SetState(state, user,
                                  [st EXCEPT !.concurrent = st.concurrent + 1])
                  /\ ret' = [op |-> "start_request", user |-> user,
                             is_login |-> is_login, result |-> TRUE]
                  /\ UNCHANGED <<extVars, tokVars, fsVars, toolVars, now, global_degraded, authVars>>

\* start_request(user, is_login=False)
start_request(user, is_login) ==
    IF global_degraded /\ ~is_login
    THEN /\ ret' = [op |-> "start_request", user |-> user,
                    is_login |-> is_login, result |-> FALSE]
         /\ UNCHANGED <<extVars, tokVars, fsVars, toolVars, now, rlVars, authVars>>
    ELSE LET st == StateOf(state, user)
         IN  IF AtCap(st.concurrent)
             THEN /\ state' = SetState(state, user, st)
                  /\ ret' = [op |-> "start_request", user |-> user,
                             is_login |-> is_login, result |-> FALSE]
                  /\ UNCHANGED <<extVars, tokVars, fsVars, toolVars, now, global_degraded, authVars>>
             ELSE /\ state' = SetState(state, user,
                                  [st EXCEPT !.concurrent = st.concurrent + 1])
                  /\ ret' = [op |-> "start_request", user |-> user,
                             is_login |-> is_login, result |-> TRUE]
                  /\ UNCHANGED <<extVars, tokVars, fsVars, toolVars, now, global_degraded, authVars>>

\* A slip of finish_request: the count is decremented without the test.
finish_request_unguarded(user) ==
    LET st == StateOf(state, user)
    IN  /\ state' = SetState(state, user,
                       [st EXCEPT !.concurrent = st.concurrent - 1])
        /\ ret' = [op |-> "finish_request", user |-> user,
                   seen |-> st.concurrent, result |-> None]
        /\ UNCHANGED <<extVars, tokVars, fsVars, toolVars, now, global_degraded, authVars>>

\* finish_request(user); ret.seen is the count the call found.
finish_request(user) ==
    LET st == StateOf(state, user)
    IN  /\ state' = SetState(state, user,
                       IF st.concurrent > 0
                       THEN [st EXCEPT !.concurrent = st.concurrent - 1]
                       ELSE st)
        /\ ret' = [op |-> "finish_request", user |-> user,
                   seen |-> st.concurrent, result |-> None]
        /\ UNCHANGED <<extVars, tokVars, fsVars, toolVars, now, global_degraded, authVars>>

\* rl.global_degraded = False: the reset from outside (an operator's action)
ResetDegraded ==
    /\ global_degraded
    /\ global_degraded' = FALSE
    /\ ret' = [op |-> "reset_degraded", user |-> None, result |-> None]
    /\ UNCHANGED <<extVars, tokVars, fsVars, toolVars, now, state, authVars>>

\* One second passes.
TickSecond ==
    /\ now < MaxTime
    /\ now' = now + 1
    /\ UNCHANGED <<extVars, tokVars, fsVars, toolVars, rlVars, authVars, ret>>

(***************************************************************************)
(* Authenticator                                                           *)
(***************************************************************************)
\* if attempt.count >= 3
LockoutThreshold == 3
\* timedelta(minutes=15)
LockoutMinutes == 15

\* The authenticator's clock advances TickMinutes at a time, up to
\* MaxAuthTime minutes; the binder is invoked at most MaxBinderCalls times.
TickMinutes == 5
MaxAuthTime == LockoutMinutes + TickMinutes
MaxBinderCalls == 4

Usernames == {"alice", "bob", "mallory"}
Passwords == {"goodpass", "badpass"}
Ips == {"1.2.3.4", "5.6.7.8"}

\* cfg.authorized_users, as load_config(config_path) returns it
authorized_users == {"alice", "bob"}

\* The injected binder (an LDAP bind): true for the directory's password,
\* whether or not the username is on the allow-list.
binder(username, password) == password = "goodpass"

\* A nullable AwareDateTime column: NULL, or the timestamp t.
NULL == <<>>
Some(t) == <<t>>

\* User(username=username): the columns default to NULL
NewUser ==
    [lockout_until |-> NULL, token |-> NULL, token_issued_at |-> NULL,
     last_activity_at |-> NULL]

\* _get_or_create_user: the users table afterwards
get_or_create_user(tbl, username) ==
    IF username \in DOMAIN tbl
    THEN tbl
    ELSE [u \in (DOMAIN tbl) \cup {username} |->
             IF u = username THEN NewUser ELSE tbl[u]]

\* A slip of the lockout test: the lockout is never enforced.
NeverLocked(row, t) == FALSE

\* user.lockout_until and user.lockout_until > now
IsLocked(row, t) == row.lockout_until # NULL /\ row.lockout_until[1] > t

\* A slip of the attempt's key: failures are counted per username.
KeyByUsername(username, ip) == <<username, "any">>

\* LoginAttempt.username == username, LoginAttempt.ip == ip
AttemptKey(username, ip) == <<username, ip>>

\* The login_attempts table after the fetch-or-create of the pair's row:
\* LoginAttempt(username, ip, count=0, last_attempt_at=now)
get_or_create_attempt(tbl, key, t) ==
    IF key \in DOMAIN tbl
    THEN tbl
    ELSE [k \in (DOMAIN tbl) \cup {key} |->
             IF k = key THEN [count |-> 0, last_attempt_at |-> Some(t)] ELSE tbl[k]]

\* A slip of the threshold test: > for >=.
AboveThreshold(count) == count > LockoutThreshold

\* A slip of the threshold test: = for >=.
AtThreshold(count) == count = LockoutThreshold

\* attempt.count >= 3
ReachedThreshold(count) == count >= LockoutThreshold

\* A slip of the success branch: the lockout is cleared, the count is kept.
SucceededAttemptKeepsCount(attempt, t) == [attempt EXCEPT !.last_attempt_at = Some(t)]

\* attempt.count = 0; attempt.last_attempt_at = now
SucceededAttempt(attempt, t) == [count |-> 0, last_attempt_at |-> Some(t)]

\* attempt.count = (attempt.count or 0) + 1; attempt.last_attempt_at = now
FailedAttempt(attempt, t) == [count |-> attempt.count + 1, last_attempt_at |-> Some(t)]

\* The record of a call: its arguments, its result, whether it invoked the
\* binder, and the pair's count as it read it (NULL when it read none).
AuthRet(op, username, password, ip, invoked, seen, result) ==
    [op |-> op, user |-> username, password |-> password, ip |-> ip,
     binder_invoked |-> invoked, seen_count |-> seen, result |-> result]

\* A slip of authenticate_user: the binder is asked before the allow-list
\* is looked at.
authenticate_user_binder_first(username, password) ==
    /\ binder_calls' = binder_calls + 1
    /\ ret' = AuthRet("authenticate_user", username, password, None, TRUE, NULL,
                      binder(username, password) /\ username \in authorized_users)
    /\ UNCHANGED <<extVars, tokVars, fsVars, toolVars, now, rlVars, users, login_attempts>>

\* authenticate_user(username, password, config_path, binder)
authenticate_user(username, password) ==
    IF username \notin authorized_users
    THEN /\ ret' = AuthRet("authenticate_user", username, password, None,
                           FALSE, NULL, FALSE)
         /\ UNCHANGED <<extVars, tokVars, fsVars, toolVars, now, rlVars, authVars>>
    ELSE /\ binder_calls' = binder_calls + 1
         /\ ret' = AuthRet("authenticate_user", username, password, None,
                           TRUE, NULL, binder(username, password))
         /\ UNCHANGED <<extVars, tokVars, fsVars, toolVars, now, rlVars, users, login_attempts>>

\* A slip of authenticate_user_with_lockout: the session is opened and the
\* User row loaded or created before the allow-list is looked at.
authenticate_user_with_lockout_store_first(username, password, ip) ==
    IF username \notin authorized_users
    THEN /\ users' = get_or_create_user(users, username)
         /\ ret' = AuthRet("authenticate_user_with_lockout", username, password,
                           ip, FALSE, NULL, FALSE)
         /\ UNCHANGED <<extVars, tokVars, fsVars, toolVars, now, rlVars, login_attempts, binder_calls>>
    ELSE LET users1 == get_or_create_user(users, username)
             user == users1[username]
         IN  IF IsLocked(user, now)
             THEN /\ users' = users1
                  /\ ret' = AuthRet("authenticate_user_with_lockout", username,
                                    password, ip, FALSE, NULL, FALSE)
                  /\ UNCHANGED <<extVars, tokVars, fsVars, toolVars, now, rlVars, login_attempts, binder_calls>>
             ELSE LET key == AttemptKey(username, ip)
                      attempts1 == get_or_create_attempt(login_attempts, key, now)
                      attempt == attempts1[key]
                      ok == binder(username, password)
                  IN  /\ binder_calls' = binder_calls + 1
                      /\ IF ok
                         THEN /\ users' = [users1 EXCEPT
                                     ![username].lockout_until = NULL]
                              /\ login_attempts' = [attempts1 EXCEPT
                                     ![key] = SucceededAttempt(attempt, now)]
                         ELSE LET failed == FailedAttempt(attempt, now)
                              IN  /\ login_attempts' =
                                         [attempts1 EXCEPT ![key] = failed]
                                  /\ users' =
                                         IF ReachedThreshold(failed.count)
                                         THEN [users1 EXCEPT
                                                 ![username].lockout_until =
                                                     Some(now + LockoutMinutes)]
                                         ELSE users1
                      /\ ret' = AuthRet("authenticate_user_with_lockout",
                                        username, password, ip, TRUE,
                                        Some(attempt.count), ok)
                      /\ UNCHANGED <<extVars, tokVars, fsVars, toolVars, now, rlVars>>

\* authenticate_user_with_lockout(username, password, ip, config_path,
\* binder, SessionLocal)
authenticate_user_with_lockout(username, password, ip) ==
    IF username \notin authorized_users
    THEN /\ ret' = AuthRet("authenticate_user_with_lockout", username, password,
                           ip, FALSE, NULL, FALSE)
         /\ UNCHANGED <<extVars, tokVars, fsVars, toolVars, now, rlVars, authVars>>
    ELSE LET users1 == get_or_create_user(users, username)
             user == users1[username]
         IN  IF IsLocked(user, now)
             THEN /\ users' = users1
                  /\ ret' = AuthRet("authenticate_user_with_lockout", username,
                                    password, ip, FALSE, NULL, FALSE)
                  /\ UNCHANGED <<extVars, tokVars, fsVars, toolVars, now, rlVars, login_attempts, binder_calls>>
             ELSE LET key == AttemptKey(username, ip)
                      attempts1 == get_or_create_attempt(login_attempts, key, now)
                      attempt == attempts1[key]
                      ok == binder(username, password)
                  IN  /\ binder_calls' = binder_calls + 1
                      /\ IF ok
                         THEN /\ users' = [users1 EXCEPT
                                     ![username].lockout_until = NULL]
                              /\ login_attempts' = [attempts1 EXCEPT
                                     ![key] = SucceededAttempt(attempt, now)]
                         ELSE LET failed == FailedAttempt(attempt, now)
                              IN  /\ login_attempts' =
                                         [attempts1 EXCEPT ![key] = failed]
                                  /\ users' =
                                         IF ReachedThreshold(failed.count)
                                         THEN [users1 EXCEPT
                                                 ![username].lockout_until =
                                                     Some(now + LockoutMinutes)]
                                         ELSE users1
                      /\ ret' = AuthRet("authenticate_user_with_lockout",
                                        username, password, ip, TRUE,
                                        Some(attempt.count), ok)
                      /\ UNCHANGED <<extVars, tokVars, fsVars, toolVars, now, rlVars>>

\* TickMinutes minutes pass.
TickMinute ==
    /\ now + TickMinutes <= MaxAuthTime
    /\ now' = now + TickMinutes
    /\ UNCHANGED <<extVars, tokVars, fsVars, toolVars, rlVars, authVars, ret>>

(***************************************************************************)
(* Token issuer and validator                                              *)
(***************************************************************************)
\* idle_hours: int = 12
idle_hours == 12

\* The token clock advances TickHours at a time, up to MaxTokenTime hours;
\* at most MaxTokens tokens are issued.
TickHours == 6
MaxTokens == 2
MaxTokenTime == idle_hours + TickHours

\* The users whose rows the token operations address (User.id names the row
\* that User.username names).
TokenUsers == {"carol", "dave"}

\* The tokens a caller may present: None (no token came with the request),
\* or a string: 0 is a string that no row holds (empty or never issued),
\* n >= 1 the n-th value token_hex returned.
TokenArgs == {NULL} \cup {Some(n) : n \in 0..MaxTokens}

\* The times a caller may pass as now.
TokenTimes == {t \in 0..MaxTokenTime : t % TickHours = 0}

\* secrets.token_hex(32): 256 random bits, so the value after n earlier ones
\* differs from all of them.
token_hex(n) == n + 1

\* A slip of issue_token: the activity baseline is not reset.
IssuedRowKeepsActivity(row, token, t) ==
    [row EXCEPT !.token = Some(token), !.token_issued_at = Some(t)]

\* user.token = token; user.token_issued_at = now; user.last_activity_at = None
IssuedRow(row, token, t) ==
    [row EXCEPT !.token = Some(token), !.token_issued_at = Some(t),
                !.last_activity_at = NULL]

\* A slip of issue_token: a missing user is created instead of reported.
issue_token_creating(user_id) ==
    LET token == token_hex(token_count)
        users1 == get_or_create_user(users, user_id)
    IN  /\ users' = [users1 EXCEPT ![user_id] = IssuedRow(@, token, now)]
        /\ token_count' = token_count + 1
        /\ ret' = [op |-> "issue_token", user |-> user_id,
                   result |-> Some(token), raised |-> None]
        /\ UNCHANGED <<extVars, fsVars, expiries, toolVars, now, rlVars, login_attempts,
                          binder_calls>>

\* issue_token(user_id, SessionLocal)
issue_token(user_id) ==
    LET token == token_hex(token_count)
    IN  IF user_id \notin DOMAIN users
        THEN /\ ret' = [op |-> "issue_token", user |-> user_id,
                        result |-> NULL, raised |-> "ValueError"]
             /\ UNCHANGED <<extVars, tokVars, fsVars, toolVars, now, rlVars, authVars>>
        ELSE /\ users' = [users EXCEPT ![user_id] = IssuedRow(@, token, now)]
             /\ token_count' = token_count + 1
             /\ ret' = [op |-> "issue_token", user |-> user_id,
                        result |-> Some(token), raised |-> None]
             /\ UNCHANGED <<extVars, fsVars, expiries, toolVars, now, rlVars, login_attempts,
                          binder_calls>>

\* select(User).where(User.token == token): the rows that match (a None
\* token compares as IS NULL and matches the rows without a token)
UsersWithToken(tbl, token) ==
    {u \in DOMAIN tbl : tbl[u].token = token}

\* A slip of the baseline: the issuance time, whatever the activity.
BaselineIssuedOnly(row) == row.token_issued_at

\* last = user.last_activity_at or user.token_issued_at
Baseline(row) ==
    IF row.last_activity_at # NULL
    THEN row.last_activity_at
    ELSE row.token_issued_at

\* A slip of the idle test: >= for >.
IdleExpiredAtBoundary(t, last) == t - last >= idle_hours

\* now - last > timedelta(hours=idle_hours)
IdleExpired(t, last) == t - last > idle_hours

\* The record of a validate_and_touch_token call: its arguments (the token
\* and now), the baseline it read (NULL when it found no user), its result.
ValidateRet(token, t, last, result, raised) ==
    [op |-> "validate_and_touch_token", token |-> token, at |-> t,
     baseline |-> last, result |-> result, raised |-> raised]

\* A slip of validate_and_touch_token: the activity is updated as soon as the
\* user is found, before the idle test.
validate_and_touch_token_touch_first(token, t) ==
    LET owners == UsersWithToken(users, token)
    IN  IF owners = {}
        THEN /\ ret' = ValidateRet(token, t, NULL, FALSE, None)
             /\ UNCHANGED <<extVars, fsVars, token_count, toolVars, now, rlVars, authVars>>
        ELSE LET user == CHOOSE u \in owners : TRUE
                 last == Baseline(users[user])
             IN  /\ users' = [users EXCEPT ![user].last_activity_at = Some(t)]
                 /\ ret' = ValidateRet(token, t, last,
                               last # NULL /\ ~IdleExpired(t, last[1]), None)
                 /\ UNCHANGED <<extVars, fsVars, token_count, toolVars, now, rlVars, login_attempts,
                                binder_calls>>

\* A slip of validate_and_touch_token: a token found idle-expired is refused,
\* but the check is recorded as activity.
validate_and_touch_token_touch_expired(token, t) ==
    LET owners == UsersWithToken(users, token)
    IN  IF owners = {}
        THEN /\ ret' = ValidateRet(token, t, NULL, FALSE, None)
             /\ UNCHANGED <<extVars, fsVars, token_count, toolVars, now, rlVars, authVars>>
        ELSE LET user == CHOOSE u \in owners : TRUE
                 last == Baseline(users[user])
             IN  IF last = NULL
                 THEN /\ ret' = ValidateRet(token, t, last, FALSE, None)
                      /\ UNCHANGED <<extVars, fsVars, token_count, toolVars, now, rlVars, authVars>>
                 ELSE /\ users' = [users EXCEPT
                             ![user].last_activity_at = Some(t)]
                      /\ ret' = ValidateRet(token, t, last,
                                    ~IdleExpired(t, last[1]), None)
                      /\ UNCHANGED <<extVars, fsVars, token_count, toolVars, now, rlVars,
                                     login_attempts, binder_calls>>

\* validate_and_touch_token(token, SessionLocal, idle_hours=12, now=t)
validate_and_touch_token(token, t) ==
    LET owners == UsersWithToken(users, token)
    IN  IF owners = {}
        THEN /\ ret' = ValidateRet(token, t, NULL, FALSE, None)
             /\ UNCHANGED <<extVars, fsVars, token_count, toolVars, now, rlVars, authVars>>
        ELSE IF Cardinality(owners) > 1
        THEN \* scalar_one_or_none() raises when several rows match
             /\ ret' = [op |-> "validate_and_touch_token", token |-> token,
                        at |-> t, raised |-> "MultipleResultsFound"]
             /\ UNCHANGED <<extVars, fsVars, token_count, toolVars, now, rlVars, authVars>>
        ELSE LET user == CHOOSE u \in owners : TRUE
                 last == Baseline(users[user])
             IN  IF last = NULL
                 THEN /\ ret' = ValidateRet(token, t, last, FALSE, None)
                      /\ UNCHANGED <<extVars, fsVars, token_count, toolVars, now, rlVars, authVars>>
                 ELSE IF IdleExpired(t, last[1])
                 THEN /\ ret' = ValidateRet(token, t, last, FALSE, None)
                      /\ UNCHANGED <<extVars, fsVars, token_count, toolVars, now, rlVars, authVars>>
                 ELSE /\ users' = [users EXCEPT
                             ![user].last_activity_at = Some(t)]
                      /\ ret' = ValidateRet(token, t, last, TRUE, None)
                      /\ UNCHANGED <<extVars, fsVars, token_count, toolVars, now, rlVars,
                                     login_attempts, binder_calls>>

\* What the callers of validate_and_touch_token have seen: for each token
\* that was found idle-expired (return False at line 62), the earliest now of
\* such a verdict, whether the token was checked again at that time or
\* later and found expired again, and whether it was found valid afterwards.
LogVerdict(log, r) ==
    IF r.raised # None \/ r.token = NULL THEN log
    ELSE IF r.result
    THEN IF r.token \in DOMAIN log
         THEN [log EXCEPT ![r.token].revived = TRUE]
         ELSE log
    ELSE IF r.baseline = NULL THEN log
    ELSE IF r.token \in DOMAIN log /\ ~log[r.token].revived /\ log[r.token].at <= r.at
    THEN [log EXCEPT ![r.token].rechecked = TRUE]
    ELSE [x \in DOMAIN log \cup {r.token} |->
             IF x = r.token
             THEN [at |-> r.at, rechecked |-> FALSE, revived |-> FALSE]
             ELSE log[x]]

\* session.add(User(username=username)); session.commit(): a user's row is
\* created (by a login, or directly).
CreateUser(username) ==
    /\ username \notin DOMAIN users
    /\ users' = get_or_create_user(users, username)
    /\ UNCHANGED <<extVars, tokVars, fsVars, toolVars, now, rlVars, login_attempts, binder_calls,
                   ret>>

\* TickHours hours pass.
TickHour ==
    /\ now + TickHours <= MaxTokenTime
    /\ now' = now + TickHours
    /\ UNCHANGED <<extVars, tokVars, fsVars, toolVars, rlVars, authVars, ret>>

(***************************************************************************)
(* Tool invocation gatekeeper                                              *)
(***************************************************************************)
\* confirmation_required_tools: [delete_file]
confirmation_required_tools == {"delete_file"}

\* The tools a caller may name.
ToolNames == {"read_text_file", "delete_file"}

\* max_output (100_000 by default, an argument of the call), and the number
\* of invocations the audit table is followed for.
max_output == 2
MaxInvocations == 2

\* A text is the sequence of its characters; a message is kept as one piece.
Char(i) == IF i % 2 = 1 THEN "a" ELSE "b"
Outputs == {[i \in 1..n |-> Char(i)] : n \in 0..(max_output + 1)}
Errors == {<<"tool failed">>, <<>>}

\* call_tool(tool_name, server_name, bearer_token): what the executor does
\* when it is called, return a text or raise an Exception with a message.
CallToolOutcomes ==
    {[raises |-> FALSE, value |-> o] : o \in Outputs} \cup
    {[raises |-> TRUE, value |-> m] : m \in Errors}

\* The values of an Optional[bool] argument.
OptionalBools == {NULL, Some(TRUE), Some(FALSE)}

\* bool(user_confirmed)
Bool(user_confirmed) == user_confirmed = Some(TRUE)

\* A slip of the decision rule: an explicit tag does not bypass.
NeedConfirmationIgnoringExplicit(tool_name, was_explicit, is_llm_request) ==
    /\ tool_name \in confirmation_required_tools
    /\ is_llm_request

\* need_confirmation
NeedConfirmation(tool_name, was_explicit, is_llm_request) ==
    /\ tool_name \in confirmation_required_tools
    /\ is_llm_request
    /\ ~was_explicit

\* allowed
Allowed(tool_name, was_explicit, is_llm_request, user_confirmed) ==
    IF NeedConfirmation(tool_name, was_explicit, is_llm_request)
    THEN Bool(user_confirmed)
    ELSE TRUE

\* inv = ToolInvocation(...): the columns the call sets, the others at their
\* defaults (chat_message_id, server_name and invocation_time are copied from
\* the arguments and the clock and are left out).
NewInvocation(tool_name, was_explicit, user_confirmed) ==
    [tool_name |-> tool_name, was_explicit |-> was_explicit,
     user_confirmed |-> IF user_confirmed # NULL THEN Bool(user_confirmed)
                        ELSE FALSE,
     success |-> FALSE, output_text |-> NULL, error_message |-> NULL]

\* A slip of the denied branch: no error message.
DeniedRowNoError(inv) ==
    [inv EXCEPT !.success = FALSE, !.output_text = NULL]

\* if not allowed: ...
DeniedRow(inv) ==
    [inv EXCEPT !.success = FALSE, !.output_text = NULL,
                !.error_message =
                    Some(<<"User confirmation required and not granted">>)]

\* A slip of the cut: one character too many is kept.
TruncateOffByOne(output) ==
    IF output # <<>> /\ Len(output) > max_output
    THEN SubSeq(output, 1, max_output + 1)
    ELSE output

\* output[:max_output] if output and len(output) > max_output else output
Truncate(output) ==
    IF output # <<>> /\ Len(output) > max_output
    THEN SubSeq(output, 1, max_output)
    ELSE output

\* The row after the executor returned.
SucceededRow(inv, truncated) ==
    [inv EXCEPT !.success = TRUE, !.output_text = Some(truncated),
                !.error_message = NULL]

\* A slip of the except branch: the error text is not stored.
FailedRowNoMessage(inv, message) ==
    [inv EXCEPT !.success = FALSE]

\* except Exception as e: ... error_message = str(e)
FailedRow(inv, message) ==
    [inv EXCEPT !.success = FALSE, !.error_message = Some(message)]

\* A slip of the audit write: the outcome is written as a second row.
RecordedTwice(tbl, inv) == Append(Append(tbl, inv), inv)

\* session.add(inv); session.commit(); ...; session.commit(): the row is
\* inserted once and updated in place with the outcome.
Recorded(tbl, inv) == Append(tbl, inv)

\* The record of a process_tool_invocation call: its arguments, what the
\* executor returned to it (NULL when it was not called or raised) and what
\* the call returned (None, or the truncated output).
ToolRet(tool_name, was_explicit, is_llm_request, user_confirmed, output, result) ==
    [op |-> "process_tool_invocation", tool_name |-> tool_name,
     was_explicit |-> was_explicit, is_llm_request |-> is_llm_request,
     user_confirmed |-> user_confirmed, output |-> output, result |-> result,
     raised |-> None]

\* process_tool_invocation(tool_name=..., was_explicit=..., is_llm_request=...,
\*                         user_confirmed=..., call_tool=..., max_output=...)
process_tool_invocation(tool_name, was_explicit, is_llm_request, user_confirmed, call_tool) ==
    LET inv == NewInvocation(tool_name, was_explicit, user_confirmed)
    IN  /\ IF ~Allowed(tool_name, was_explicit, is_llm_request, user_confirmed)
           THEN /\ tool_invocations' = Recorded(tool_invocations, DeniedRow(inv))
                /\ executor_calls' = executor_calls
                /\ ret' = ToolRet(tool_name, was_explicit, is_llm_request,
                                  user_confirmed, NULL, NULL)
           ELSE IF call_tool.raises
           THEN /\ tool_invocations' =
                      Recorded(tool_invocations, FailedRow(inv, call_tool.value))
                /\ executor_calls' = executor_calls + 1
                /\ ret' = ToolRet(tool_name, was_explicit, is_llm_request,
                                  user_confirmed, NULL, NULL)
           ELSE LET truncated == Truncate(call_tool.value)
                IN  /\ tool_invocations' =
                          Recorded(tool_invocations, SucceededRow(inv, truncated))
                    /\ executor_calls' = executor_calls + 1
                    /\ ret' = ToolRet(tool_name, was_explicit, is_llm_request,
                                      user_confirmed, Some(call_tool.value),
                                      Some(truncated))
        /\ UNCHANGED <<extVars, tokVars, fsVars, now, rlVars, authVars>>

(***************************************************************************)
(* LLM call wrapper                                                        *)
(***************************************************************************)
\* The number of backend calls the model follows.
MaxBackendCalls == 4

\* What the injected caller does when called: it raises, or it returns a
\* dict that may hold 'text' and 'recommended_tool'.
LLMCallerOutcomes ==
    {[raises |-> TRUE, text |-> NULL, recommended_tool |-> NULL]} \cup
    {[raises |-> FALSE, text |-> t, recommended_tool |-> r] :
        t \in {NULL, Some("Echo")}, r \in {NULL, Some(""), Some("read_text_file")}}

\* rate_limiter.record_operation(username): the limiter after the call and
\* the value returned.
record_operation_effect(s, degraded, user, t) ==
    IF degraded
    THEN [state |-> s, global_degraded |-> degraded, result |-> FALSE]
    ELSE LET st == StateOf(s, user)
             ops1 == Append(prune(st.ops, t), t)
         IN  [state |-> SetState(s, user, [st EXCEPT !.ops = ops1]),
              global_degraded |-> IF OverLimit(Len(ops1)) THEN TRUE ELSE degraded,
              result |-> ~OverLimit(Len(ops1))]

\* LLMOut(text=result.get("text", ""), recommended_tool=rec_tool or None)
LLMOut(result) ==
    [text |-> IF result.text # NULL THEN result.text[1] ELSE "",
     recommended_tool |->
        IF result.recommended_tool \in {NULL, Some("")} THEN NULL
        ELSE result.recommended_tool]

\* The record of a run_llm call: what record_operation answered, how many
\* timestamps the user's window held when the backend was invoked, and the
\* value returned or the exception raised.
LLMRet(username, recorded, seen, result, raised) ==
    [op |-> "run_llm", user |-> username, recorded |-> recorded,
     ops_at_backend |-> seen, result |-> result, raised |-> raised]

\* A slip of run_llm: the backend is called first, so that nothing is
\* recorded when it raises.
run_llm_backend_first(username, caller) ==
    LET r == record_operation_effect(state, global_degraded, username, now)
        seen == Len(StateOf(state, username).ops)
    IN  /\ backend_calls' = backend_calls + 1
        /\ IF caller.raises
           THEN /\ UNCHANGED rlVars
                /\ ret' = LLMRet(username, NULL, seen, NULL, "Exception")
           ELSE /\ state' = r.state
                /\ global_degraded' = r.global_degraded
                /\ ret' = LLMRet(username, Some(r.result), seen,
                                 Some(LLMOut(caller)), None)
        /\ UNCHANGED <<agent, threads, txn, tokVars, fsVars, toolVars, now, authVars>>

\* A slip of run_llm: a refused operation does not reach the backend.
run_llm_gated(username, caller) ==
    LET r == record_operation_effect(state, global_degraded, username, now)
        seen == Len(StateOf(r.state, username).ops)
    IN  /\ state' = r.state
        /\ global_degraded' = r.global_degraded
        /\ backend_calls' = IF r.result THEN backend_calls + 1 ELSE backend_calls
        /\ ret' = IF ~r.result
                  THEN LLMRet(username, Some(r.result), seen,
                              Some([text |-> "", recommended_tool |-> NULL]), None)
                  ELSE IF caller.raises
                  THEN LLMRet(username, Some(r.result), seen, NULL, "Exception")
                  ELSE LLMRet(username, Some(r.result), seen,
                              Some(LLMOut(caller)), None)
        /\ UNCHANGED <<agent, threads, txn, tokVars, fsVars, toolVars, now, authVars>>

\* LLMRunner.run_llm(user_input)
run_llm(username, caller) ==
    LET r == record_operation_effect(state, global_degraded, username, now)
        seen == Len(StateOf(r.state, username).ops)
    IN  /\ state' = r.state
        /\ global_degraded' = r.global_degraded
        /\ backend_calls' = backend_calls + 1
        /\ ret' = IF caller.raises
                  THEN LLMRet(username, Some(r.result), seen, NULL, "Exception")
                  ELSE LLMRet(username, Some(r.result), seen,
                              Some(LLMOut(caller)), None)
        /\ UNCHANGED <<agent, threads, txn, tokVars, fsVars, toolVars, now, authVars>>

(***************************************************************************)
(* PydanticAiRunner.run_llm                                                *)
(***************************************************************************)
\* The characters of a backend answer: the braces, a blank, "x" for a
\* character of prose, and "T" for the member "recommended_tool":
\* "read_text_file" written out (members in a row are comma-separated).
TextChars == {"{", "}", "T", "x", " "}
MaxTextLen == 5

\* The number of calls through the runner the model follows.
MaxPydanticCalls == 1
Texts == UNION {[1..n -> TextChars] : n \in 0..MaxTextLen}

\* What agent.run_sync does: it raises, or it returns a result whose output
\* is None or a str.
AgentRunOutcomes ==
    {[raises |-> TRUE, output |-> NULL], [raises |-> FALSE, output |-> NULL]} \cup
    {[raises |-> FALSE, output |-> Some(t)] : t \in Texts}

\* str.strip(): without the leading and trailing blanks
Strip(text) ==
    LET inked == {i \in DOMAIN text : text[i] # " "}
    IN  IF inked = {} THEN <<>>
        ELSE SubSeq(text, CHOOSE i \in inked : \A j \in inked : i <= j,
                          CHOOSE i \in inked : \A j \in inked : j <= i)

\* Whether \{[^\{\}]*\} matches text from position i to position j.
BraceMatch(text, i, j) ==
    /\ i < j
    /\ text[i] = "{"
    /\ text[j] = "}"
    /\ \A k \in (i + 1)..(j - 1) : text[k] \notin {"{", "}"}

\* re.search(r"\{[^\{\}]*\}", text): the leftmost match, or None
ReSearch(text) ==
    LET starts == {i \in DOMAIN text : \E j \in DOMAIN text : BraceMatch(text, i, j)}
    IN  IF starts = {} THEN NULL
        ELSE LET i == CHOOSE a \in starts : \A b \in starts : a <= b
                 j == CHOOSE b \in DOMAIN text : BraceMatch(text, i, b)
             IN  Some(SubSeq(text, i, j))

\* json.loads of a matched {...}: it raises on prose between the braces,
\* else returns the dict of the members written there.
JsonLoads(obj) ==
    LET inside == {obj[k] : k \in 2..(Len(obj) - 1)}
    IN  [raises |-> "x" \in inside,
         recommended_tool |-> IF "T" \in inside THEN Some("read_text_file") ELSE NULL]

\* The answers of at most one character among AgentRunOutcomes.
ShortAgentRunOutcomes ==
    {o \in AgentRunOutcomes : o.output = NULL \/ Len(o.output[1]) <= 1}

\* Lines 124-137: the hint found in the text, None when nothing matches,
\* the match does not parse or the dict has no such string.
RecTool(text) ==
    LET match == ReSearch(text)
    IN  IF match = NULL THEN NULL
        ELSE IF JsonLoads(match[1]).raises THEN NULL
        ELSE JsonLoads(match[1]).recommended_tool

\* The record of a PydanticAiRunner.run_llm call.
PydanticRet(username, recorded, seen, output, result, raised) ==
    [op |-> "PydanticAiRunner.run_llm", user |-> username, recorded |-> recorded,
     ops_at_backend |-> seen, output |-> output, result |-> result,
     raised |-> raised]

\* PydanticAiRunner.run_llm(user_input)
pydantic_run_llm(username, run_sync) ==
    LET r == record_operation_effect(state, global_degraded, username, now)
        seen == Len(StateOf(r.state, username).ops)
        text == IF run_sync.output = NULL THEN <<>> ELSE Strip(run_sync.output[1])
    IN  /\ state' = r.state
        /\ global_degraded' = r.global_degraded
        /\ backend_calls' = backend_calls + 1
        /\ ret' = IF run_sync.raises
                  THEN PydanticRet(username, Some(r.result), seen, NULL, NULL,
                                   "Exception")
                  ELSE PydanticRet(username, Some(r.result), seen, run_sync.output,
                           Some([text |-> text, recommended_tool |-> RecTool(text)]),
                           None)
        /\ UNCHANGED <<agent, threads, txn, tokVars, fsVars, toolVars, now, authVars>>

(***************************************************************************)
(* MCP server registry (AgentManager.get_server_status_and_tools)          *)
(***************************************************************************)
\* self.list_servers(): the configured servers, in order
Servers == <<"https://s1", "https://s2">>

\* What a server's client does: "absent" is a server without a client in
\* mcp_clients; list_tools() may raise when called ("call_raises"); its
\* coroutine may raise ("coro_raises"), return at once ("returns"), return
\* only after the timeout ("slow_returns") or never complete ("never").
ClientKinds ==
    {"absent", "call_raises", "coro_raises", "returns", "slow_returns", "never"}

\* The tools a client's list_tools returns: a str, dicts with and without a
\* name, an object with a name attribute.
ListedTools ==
    <<[kind |-> "str", name |-> Some("read_file")],
      [kind |-> "dict", name |-> Some("list_dir")],
      [kind |-> "dict", name |-> NULL],
      [kind |-> "object", name |-> Some("delete_file")]>>

\* if isinstance(t, str): ... elif isinstance(t, dict): ... else: ...
HasName(t) == t.name # NULL /\ t.name # Some("")
RECURSIVE NamesOf(_)
NamesOf(tools) ==
    IF tools = <<>> THEN <<>>
    ELSE IF HasName(Head(tools))
         THEN <<Head(tools).name[1]>> \o NamesOf(Tail(tools))
         ELSE NamesOf(Tail(tools))

\* statuses[server] = info
SetStatus(statuses, server, info) ==
    [x \in (DOMAIN statuses) \cup {server} |->
        IF x = server THEN info ELSE statuses[x]]

\* The call after the iteration for its current server ended with these tools.
ServerDone(a, tools) ==
    [a EXCEPT !.pc = "for",
              !.statuses = SetStatus(a.statuses, Head(a.todo),
                                     [status |-> "connected", tools |-> tools]),
              !.todo = Tail(a.todo)]

\* get_server_status_and_tools() is called: loop_running says whether the
\* caller's thread has a running event loop, clients what each server's
\* client does.
GetServerStatusCall(loop_running, clients) ==
    /\ agent = <<>>
    /\ agent' = [pc |-> "for", loop_running |-> loop_running,
                 clients |-> clients, todo |-> Servers, statuses |-> <<>>]
    /\ UNCHANGED <<backend_calls, threads, txn, tokVars, fsVars, toolVars, now, rlVars,
                   authVars, ret>>

\* for server in servers: ... up to the call of _run_coro_blocking
ForServer ==
    /\ agent # <<>>
    /\ agent.pc = "for"
    /\ agent.todo # <<>>
    /\ LET server == Head(agent.todo)
           kind == agent.clients[server]
       IN  agent' =
             IF kind = "absent"
             THEN [agent EXCEPT
                     !.statuses = SetStatus(agent.statuses, server,
                         [status |-> "not_connected", tools |-> <<>>]),
                     !.todo = Tail(agent.todo)]
             ELSE IF kind = "call_raises"
             THEN ServerDone(agent, <<>>)
             ELSE IF agent.loop_running
             THEN [agent EXCEPT !.pc = "fut_result"]
             ELSE [agent EXCEPT !.pc = "asyncio_run"]
    /\ UNCHANGED <<backend_calls, threads, txn, tokVars, fsVars, toolVars, now, rlVars,
                   authVars, ret>>

\* return asyncio.run(coro): returns or raises when the coroutine completes
AsyncioRunDone ==
    /\ agent # <<>>
    /\ agent.pc = "asyncio_run"
    /\ LET kind == agent.clients[Head(agent.todo)]
       IN  /\ kind \in {"coro_raises", "returns", "slow_returns"}
           /\ agent' = ServerDone(agent,
                  IF kind = "coro_raises" THEN <<>> ELSE NamesOf(ListedTools))
    /\ UNCHANGED <<backend_calls, threads, txn, tokVars, fsVars, toolVars, now, rlVars,
                   authVars, ret>>

\* return fut.result(timeout=5): the coroutine completed within the timeout
\* (the executor's shutdown then has nothing to wait for)
FutResultDone ==
    /\ agent # <<>>
    /\ agent.pc = "fut_result"
    /\ LET kind == agent.clients[Head(agent.todo)]
       IN  /\ kind \in {"coro_raises", "returns"}
           /\ agent' = ServerDone(agent,
                  IF kind = "coro_raises" THEN <<>> ELSE NamesOf(ListedTools))
    /\ UNCHANGED <<backend_calls, threads, txn, tokVars, fsVars, toolVars, now, rlVars,
                   authVars, ret>>

\* fut.result(timeout=5) raises TimeoutError: the with block is left through
\* ThreadPoolExecutor.__exit__, which is shutdown(wait=True)
FutResultTimeout ==
    /\ agent # <<>>
    /\ agent.pc = "fut_result"
    /\ agent.clients[Head(agent.todo)] \in {"slow_returns", "never"}
    /\ agent' = [agent EXCEPT !.pc = "shutdown"]
    /\ UNCHANGED <<backend_calls, threads, txn, tokVars, fsVars, toolVars, now, rlVars,
                   authVars, ret>>

\* shutdown(wait=True) returns when the worker thread has finished the
\* coroutine; the TimeoutError then reaches _list_tool_names, which returns []
ShutdownDone ==
    /\ agent # <<>>
    /\ agent.pc = "shutdown"
    /\ agent.clients[Head(agent.todo)] = "slow_returns"
    /\ agent' = ServerDone(agent, <<>>)
    /\ UNCHANGED <<backend_calls, threads, txn, tokVars, fsVars, toolVars, now, rlVars,
                   authVars, ret>>

\* return statuses
ReturnStatuses ==
    /\ agent # <<>>
    /\ agent.pc = "for"
    /\ agent.todo = <<>>
    /\ ret' = [op |-> "get_server_status_and_tools",
               loop_running |-> agent.loop_running, clients |-> agent.clients,
               result |-> agent.statuses]
    /\ agent' = <<>>
    /\ UNCHANGED <<backend_calls, threads, txn, tokVars, fsVars, toolVars, now, rlVars,
                   authVars>>

(***************************************************************************)
(* RateLimiter called from concurrent threads.  The class takes no lock,   *)
(* so the reads and writes of its methods interleave: each step below is   *)
(* one access to the shared limiter.                                       *)
(***************************************************************************)
\* The request-handling threads, the user they all serve, and the number of
\* calls each thread makes.
Threads == {"t1", "t2"}
ThreadUser == "alice"
MaxThreadCalls == 2

\* A thread outside any call; `net` counts the increments minus the
\* decrements of st.concurrent the thread's calls have made.
IdleThread == [pc |-> "idle", is_login |-> FALSE, local |-> 0, calls |-> 0, net |-> 0]
ThreadOf(t) == IF t \in DOMAIN threads THEN threads[t] ELSE IdleThread
SetThread(t, th) ==
    [x \in (DOMAIN threads) \cup {t} |-> IF x = t THEN th ELSE threads[x]]

\* A thread enters start_request, finish_request or record_operation.
ThreadCall(t, op, is_login) ==
    /\ ThreadOf(t).pc = "idle"
    /\ ThreadOf(t).calls < MaxThreadCalls
    /\ threads' = SetThread(t, [ThreadOf(t) EXCEPT
                      !.pc = op, !.is_login = is_login, !.calls = @ + 1])
    /\ UNCHANGED <<backend_calls, agent, txn, tokVars, fsVars, toolVars, now, rlVars,
                   authVars, ret>>

\* start_request: if self.global_degraded and not is_login: return False
StartReadDegraded(t) ==
    /\ ThreadOf(t).pc = "start_request"
    /\ threads' = SetThread(t, [ThreadOf(t) EXCEPT !.pc =
                      IF global_degraded /\ ~ThreadOf(t).is_login
                      THEN "idle" ELSE "start_get"])
    /\ UNCHANGED <<backend_calls, agent, txn, tokVars, fsVars, toolVars, now, rlVars,
                   authVars, ret>>

\* start_request: st = self._state[user]
StartGetState(t) ==
    /\ ThreadOf(t).pc = "start_get"
    /\ state' = SetState(state, ThreadUser, StateOf(state, ThreadUser))
    /\ threads' = SetThread(t, [ThreadOf(t) EXCEPT !.pc = "start_check"])
    /\ UNCHANGED <<backend_calls, agent, txn, tokVars, fsVars, toolVars, now,
                   global_degraded, authVars, ret>>

\* start_request: if st.concurrent >= self.max_concurrent: return False
StartCheck(t) ==
    /\ ThreadOf(t).pc = "start_check"
    /\ threads' = SetThread(t, [ThreadOf(t) EXCEPT !.pc =
                      IF AtCap(state[ThreadUser].concurrent)
                      THEN "idle" ELSE "start_load"])
    /\ UNCHANGED <<backend_calls, agent, txn, tokVars, fsVars, toolVars, now, rlVars,
                   authVars, ret>>

\* start_request: st.concurrent += 1 (the read)
StartLoad(t) ==
    /\ ThreadOf(t).pc = "start_load"
    /\ threads' = SetThread(t, [ThreadOf(t) EXCEPT
                      !.pc = "start_store",
                      !.local = state[ThreadUser].concurrent])
    /\ UNCHANGED <<backend_calls, agent, txn, tokVars, fsVars, toolVars, now, rlVars,
                   authVars, ret>>

\* start_request: st.concurrent += 1 (the write); return True
StartStore(t) ==
    /\ ThreadOf(t).pc = "start_store"
    /\ state' = [state EXCEPT ![ThreadUser].concurrent = ThreadOf(t).local + 1]
    /\ threads' = SetThread(t, [ThreadOf(t) EXCEPT
                      !.pc = "idle", !.net = @ + 1])
    /\ UNCHANGED <<backend_calls, agent, txn, tokVars, fsVars, toolVars, now,
                   global_degraded, authVars, ret>>

\* finish_request: st = self._state[user]
FinishGetState(t) ==
    /\ ThreadOf(t).pc = "finish_request"
    /\ state' = SetState(state, ThreadUser, StateOf(state, ThreadUser))
    /\ threads' = SetThread(t, [ThreadOf(t) EXCEPT !.pc = "finish_check"])
    /\ UNCHANGED <<backend_calls, agent, txn, tokVars, fsVars, toolVars, now,
                   global_degraded, authVars, ret>>

\* finish_request: if st.concurrent > 0
FinishCheck(t) ==
    /\ ThreadOf(t).pc = "finish_check"
    /\ threads' = SetThread(t, [ThreadOf(t) EXCEPT !.pc =
                      IF state[ThreadUser].concurrent > 0
                      THEN "finish_load" ELSE "idle"])
    /\ UNCHANGED <<backend_calls, agent, txn, tokVars, fsVars, toolVars, now, rlVars,
                   authVars, ret>>

\* finish_request: st.concurrent -= 1 (the read)
FinishLoad(t) ==
    /\ ThreadOf(t).pc = "finish_load"
    /\ threads' = SetThread(t, [ThreadOf(t) EXCEPT
                      !.pc = "finish_store",
                      !.local = state[ThreadUser].concurrent])
    /\ UNCHANGED <<backend_calls, agent, txn, tokVars, fsVars, toolVars, now, rlVars,
                   authVars, ret>>

\* finish_request: st.concurrent -= 1 (the write)
FinishStore(t) ==
    /\ ThreadOf(t).pc = "finish_store"
    /\ state' = [state EXCEPT ![ThreadUser].concurrent = ThreadOf(t).local - 1]
    /\ threads' = SetThread(t, [ThreadOf(t) EXCEPT
                      !.pc = "idle", !.net = @ - 1])
    /\ UNCHANGED <<backend_calls, agent, txn, tokVars, fsVars, toolVars, now,
                   global_degraded, authVars, ret>>

\* record_operation: if self.global_degraded: return False
RecordReadDegraded(t) ==
    /\ ThreadOf(t).pc = "record_operation"
    /\ threads' = SetThread(t, [ThreadOf(t) EXCEPT !.pc =
                      IF global_degraded THEN "idle" ELSE "record_prune"])
    /\ UNCHANGED <<backend_calls, agent, txn, tokVars, fsVars, toolVars, now, rlVars,
                   authVars, ret>>

\* record_operation: st = self._state[user]; self._prune(user, now)
RecordPrune(t) ==
    /\ ThreadOf(t).pc = "record_prune"
    /\ LET st == StateOf(state, ThreadUser)
       IN  state' = SetState(state, ThreadUser,
                        [st EXCEPT !.ops = prune(st.ops, now)])
    /\ threads' = SetThread(t, [ThreadOf(t) EXCEPT !.pc = "record_append"])
    /\ UNCHANGED <<backend_calls, agent, txn, tokVars, fsVars, toolVars, now,
                   global_degraded, authVars, ret>>

\* record_operation: st.ops.append(now)
RecordAppend(t) ==
    /\ ThreadOf(t).pc = "record_append"
    /\ state' = [state EXCEPT ![ThreadUser].ops = Append(@, now)]
    /\ threads' = SetThread(t, [ThreadOf(t) EXCEPT !.pc = "record_len"])
    /\ UNCHANGED <<backend_calls, agent, txn, tokVars, fsVars, toolVars, now,
                   global_degraded, authVars, ret>>

\* record_operation: if len(st.ops) > self.max_ops: self.global_degraded = True
RecordLen(t) ==
    /\ ThreadOf(t).pc = "record_len"
    /\ global_degraded' = IF OverLimit(Len(state[ThreadUser].ops))
                          THEN TRUE ELSE global_degraded
    /\ threads' = SetThread(t, [ThreadOf(t) EXCEPT !.pc = "idle"])
    /\ UNCHANGED <<backend_calls, agent, txn, tokVars, fsVars, toolVars, now, state,
                   authVars, ret>>

(***************************************************************************)
(* authenticate_user_with_lockout called from concurrent threads, each     *)
(* with its own session: each step below is one statement sent to the      *)
(* store, or the binder call between two of them.                          *)
(***************************************************************************)
\* The address the threads' login requests come from, and the number of
\* calls each thread makes.
AuthThreadIp == "1.2.3.4"
MaxAuthThreadCalls == 2

\* A thread outside any call; `failed` counts the failed binder checks the
\* thread has committed since the last successful login of the pair.
IdleAuthThread == [pc |-> "idle", password |-> "badpass", key |-> <<>>, local |-> 0, ok |-> FALSE, calls |-> 0, failed |-> 0]
AuthThreadOf(t) == IF t \in DOMAIN threads THEN threads[t] ELSE IdleAuthThread
SetAuthThread(t, th) ==
    [x \in (DOMAIN threads) \cup {t} |-> IF x = t THEN th ELSE threads[x]]

\* select(LoginAttempt).where(username == ..., ip == ...): the rows it
\* matches.  The table has no unique constraint on (username, ip); a second
\* row of a pair, inserted by thread t, is kept under the key <<username,
\* ip, t>>.
PairRows(tbl, username, ip) ==
    {k \in DOMAIN tbl : k[1] = username /\ k[2] = ip}

\* Lines 65-76: the allow-list test, _get_or_create_user and the lockout
\* test.  ThreadUser is on the allow-list.
AuthThreadCall(t, password) ==
    /\ AuthThreadOf(t).pc = "idle"
    /\ AuthThreadOf(t).calls < MaxAuthThreadCalls
    /\ users' = get_or_create_user(users, ThreadUser)
    /\ IF IsLocked(users'[ThreadUser], now)
       THEN /\ threads' = SetAuthThread(t, [AuthThreadOf(t) EXCEPT !.calls = @ + 1])
            /\ ret' = AuthRet("authenticate_user_with_lockout", ThreadUser,
                              password, AuthThreadIp, FALSE, NULL, FALSE)
       ELSE /\ threads' = SetAuthThread(t, [AuthThreadOf(t) EXCEPT
                              !.pc = "select", !.password = password,
                              !.calls = @ + 1])
            /\ UNCHANGED ret
    /\ UNCHANGED <<backend_calls, agent, txn, tokVars, fsVars, toolVars, now, rlVars,
                   login_attempts, binder_calls>>

\* Lines 79-85: the select of the pair's row; scalar_one_or_none() raises
\* when it matches several rows.
AuthThreadSelect(t) ==
    /\ AuthThreadOf(t).pc = "select"
    /\ LET rows == PairRows(login_attempts, ThreadUser, AuthThreadIp)
       IN  IF Cardinality(rows) > 1
           THEN /\ threads' = SetAuthThread(t, [AuthThreadOf(t) EXCEPT !.pc = "idle"])
                /\ ret' = [op |-> "authenticate_user_with_lockout",
                           user |-> ThreadUser, password |-> AuthThreadOf(t).password,
                           ip |-> AuthThreadIp, raised |-> "MultipleResultsFound"]
           ELSE IF rows = {}
           THEN /\ threads' = SetAuthThread(t, [AuthThreadOf(t) EXCEPT !.pc = "insert"])
                /\ UNCHANGED ret
           ELSE LET key == CHOOSE k \in rows : TRUE
                IN  /\ threads' = SetAuthThread(t, [AuthThreadOf(t) EXCEPT
                                      !.pc = "binder", !.key = key,
                                      !.local = login_attempts[key].count])
                    /\ UNCHANGED ret
    /\ UNCHANGED <<backend_calls, agent, txn, tokVars, fsVars, toolVars, now, rlVars,
                   authVars>>

\* Lines 86-90: the insert of a row for the pair, committed and refreshed.
AuthThreadInsert(t) ==
    /\ AuthThreadOf(t).pc = "insert"
    /\ LET first == AttemptKey(ThreadUser, AuthThreadIp)
           key == IF first \in DOMAIN login_attempts THEN Append(first, t) ELSE first
       IN  /\ login_attempts' = get_or_create_attempt(login_attempts, key, now)
           /\ threads' = SetAuthThread(t, [AuthThreadOf(t) EXCEPT
                             !.pc = "binder", !.key = key,
                             !.local = login_attempts'[key].count])
    /\ UNCHANGED <<backend_calls, agent, txn, tokVars, fsVars, toolVars, now, rlVars,
                   users, binder_calls, ret>>

\* Line 93: ok = binder(username, password)
AuthThreadBinder(t) ==
    /\ AuthThreadOf(t).pc = "binder"
    /\ binder_calls' = binder_calls + 1
    /\ threads' = SetAuthThread(t, [AuthThreadOf(t) EXCEPT
                      !.pc = "commit",
                      !.ok = binder(ThreadUser, AuthThreadOf(t).password)])
    /\ UNCHANGED <<backend_calls, agent, txn, tokVars, fsVars, toolVars, now, rlVars,
                   users, login_attempts, ret>>

\* Lines 94-107: the outcome is written from the values the session read
\* (attempt.count is the count the select or the refresh loaded) and
\* committed.
AuthThreadCommit(t) ==
    /\ AuthThreadOf(t).pc = "commit"
    /\ LET th == AuthThreadOf(t)
           loaded == [login_attempts[th.key] EXCEPT !.count = th.local]
       IN  IF th.ok
           THEN /\ users' = [users EXCEPT ![ThreadUser].lockout_until = NULL]
                /\ login_attempts' = [login_attempts EXCEPT
                                         ![th.key] = SucceededAttempt(loaded, now)]
                /\ threads' = [x \in (DOMAIN threads) \cup {t} |->
                                  IF x = t
                                  THEN [th EXCEPT !.pc = "idle", !.failed = 0]
                                  ELSE [threads[x] EXCEPT !.failed = 0]]
                /\ ret' = AuthRet("authenticate_user_with_lockout", ThreadUser,
                                  th.password, AuthThreadIp, TRUE,
                                  Some(th.local), TRUE)
           ELSE /\ login_attempts' = [login_attempts EXCEPT
                                         ![th.key] = FailedAttempt(loaded, now)]
                /\ users' = IF ReachedThreshold(FailedAttempt(loaded, now).count)
                            THEN [users EXCEPT ![ThreadUser].lockout_until =
                                                   Some(now + LockoutMinutes)]
                            ELSE users
                /\ threads' = SetAuthThread(t, [th EXCEPT
                                  !.pc = "idle", !.failed = @ + 1])
                /\ ret' = AuthRet("authenticate_user_with_lockout", ThreadUser,
                                  th.password, AuthThreadIp, TRUE,
                                  Some(th.local), FALSE)
    /\ UNCHANGED <<backend_calls, agent, txn, tokVars, fsVars, toolVars, now, rlVars,
                   binder_calls>>

(***************************************************************************)
(* Fileserver AuthenticationMiddleware.  dispatch is a coroutine whose     *)
(* first await is call_next, after increment_usage: on the server's one    *)
(* event loop the statements before it run without another request in      *)
(* between, so one step below is one request up to call_next.              *)
(***************************************************************************)
\* rate_limit.daily_requests of the configuration, the users that hold a
\* token, the days the model follows and the count at which it stops.
daily_requests == 2
FsUsers == {"erin", "frank"}
MaxDay == 1
MaxUsage == daily_requests + 1

\* A request: whether its path is /sse or /messages, the user its bearer
\* token belongs to (NULL: no header, or no such token), whether each of the
\* three statements sent to the usage database fails with sqlite3.Error,
\* and whether midnight passes between the check and the increment.
Requests ==
    [protected : BOOLEAN, user : {NULL} \cup {Some(u) : u \in FsUsers},
     degraded_error : BOOLEAN, check_error : BOOLEAN, increment_error : BOOLEAN,
     midnight : BOOLEAN]

\* SELECT request_count FROM usage WHERE username = ? AND date = ?
\* (0 when there is no row)
UsageOf(tbl, username, date) ==
    IF <<username, date>> \in DOMAIN tbl THEN tbl[<<username, date>>] ELSE 0

\* is_system_degraded(): some row of today is above the limit; False when
\* the database cannot be read
is_system_degraded(tbl, date, error) ==
    /\ ~error
    /\ \E k \in DOMAIN tbl : k[2] = date /\ tbl[k] > daily_requests

\* A slip of check_rate_limit: <= for <.
WithinLimitOrAt(current_usage) == current_usage <= daily_requests

\* is_within_limit = current_usage < daily_limit
WithinLimit(current_usage) == current_usage < daily_requests

\* check_rate_limit(username): (is_within_limit, current_usage); (True, 0)
\* when the database cannot be read
check_rate_limit(tbl, username, date, error) ==
    IF error
    THEN [is_within_limit |-> TRUE, current_usage |-> 0]
    ELSE [is_within_limit |-> WithinLimit(UsageOf(tbl, username, date)),
          current_usage |-> UsageOf(tbl, username, date)]

\* increment_usage(username): INSERT ... VALUES (?, ?, 1) ON CONFLICT DO
\* UPDATE SET request_count = request_count + 1
increment_usage(tbl, username, date) ==
    [k \in (DOMAIN tbl) \cup {<<username, date>>} |->
        IF k = <<username, date>> THEN UsageOf(tbl, username, date) + 1 ELSE tbl[k]]

\* The record of a request: the status of the response (200 stands for
\* whatever call_next returns, 500 for the exception of increment_usage),
\* whether check_rate_limit read the store, and the usage it returned.
DispatchRet(request, status, checked, seen) ==
    [op |-> "dispatch", user |-> request.user, status |-> status,
     checked |-> checked, current_usage |-> seen]

\* AuthenticationMiddleware.dispatch(request, call_next)
dispatch(request) ==
    LET today == day
        tomorrow == IF request.midnight /\ day < MaxDay THEN day + 1 ELSE day
    IN  /\ day' = tomorrow
        /\ IF ~request.protected
           THEN /\ ret' = DispatchRet(request, 200, FALSE, NULL)
                /\ UNCHANGED <<usage, fail_opens>>
           ELSE IF request.user = NULL
           THEN /\ ret' = DispatchRet(request, 401, FALSE, NULL)
                /\ UNCHANGED <<usage, fail_opens>>
           ELSE IF is_system_degraded(usage, today, request.degraded_error)
           THEN /\ ret' = DispatchRet(request, 429, FALSE, NULL)
                /\ UNCHANGED <<usage, fail_opens>>
           ELSE LET username == request.user[1]
                    c == check_rate_limit(usage, username, today, request.check_error)
                IN  IF ~c.is_within_limit
                    THEN /\ ret' = DispatchRet(request, 429, TRUE, Some(c.current_usage))
                         /\ UNCHANGED <<usage, fail_opens>>
                    ELSE IF request.increment_error
                    THEN /\ ret' = DispatchRet(request, 500, ~request.check_error,
                                               Some(c.current_usage))
                         /\ UNCHANGED <<usage, fail_opens>>
                    ELSE /\ usage' = increment_usage(usage, username, tomorrow)
                         /\ fail_opens' = (fail_opens \/ request.check_error)
                         /\ ret' = DispatchRet(request, 200, ~request.check_error,
                                               Some(c.current_usage))
        /\ UNCHANGED <<extVars, tokVars, toolVars, now, rlVars, authVars>>

(***************************************************************************)
(* The database calls commit by commit: each step below ends with one      *)
(* session.commit(), after which the tables are visible to other readers.  *)
(***************************************************************************)
\* process_tool_invocation up to its first commit: the row is inserted with
\* the columns of the call and the defaults of the others.
ToolInsertCommit(tool_name, was_explicit, is_llm_request, user_confirmed) ==
    /\ txn = <<>>
    /\ tool_invocations' = Recorded(tool_invocations,
           NewInvocation(tool_name, was_explicit, user_confirmed))
    /\ txn' = [op |-> "process_tool_invocation", tool_name |-> tool_name,
               was_explicit |-> was_explicit, is_llm_request |-> is_llm_request,
               user_confirmed |-> user_confirmed,
               row |-> Len(tool_invocations) + 1]
    /\ UNCHANGED <<backend_calls, agent, threads, tokVars, fsVars, executor_calls, now,
                   rlVars, authVars, ret>>

\* if not allowed: ...; session.commit(); return None
ToolDeniedCommit ==
    /\ txn # <<>>
    /\ txn.op = "process_tool_invocation"
    /\ ~Allowed(txn.tool_name, txn.was_explicit, txn.is_llm_request,
                txn.user_confirmed)
    /\ tool_invocations' = [tool_invocations EXCEPT ![txn.row] = DeniedRow(@)]
    /\ ret' = ToolRet(txn.tool_name, txn.was_explicit, txn.is_llm_request,
                      txn.user_confirmed, NULL, NULL)
    /\ txn' = <<>>
    /\ UNCHANGED <<backend_calls, agent, threads, tokVars, fsVars, executor_calls, now,
                   rlVars, authVars>>

\* try: output = call_tool(...); ...; session.commit() / except Exception:
\* ...; session.commit()
ToolExecuteCommit(call_tool) ==
    /\ txn # <<>>
    /\ txn.op = "process_tool_invocation"
    /\ Allowed(txn.tool_name, txn.was_explicit, txn.is_llm_request,
               txn.user_confirmed)
    /\ executor_calls' = executor_calls + 1
    /\ IF call_tool.raises
       THEN /\ tool_invocations' = [tool_invocations EXCEPT
                    ![txn.row] = FailedRow(@, call_tool.value)]
            /\ ret' = ToolRet(txn.tool_name, txn.was_explicit,
                              txn.is_llm_request, txn.user_confirmed, NULL, NULL)
       ELSE /\ tool_invocations' = [tool_invocations EXCEPT
                    ![txn.row] = SucceededRow(@, Truncate(call_tool.value))]
            /\ ret' = ToolRet(txn.tool_name, txn.was_explicit,
                              txn.is_llm_request, txn.user_confirmed,
                              Some(call_tool.value),
                              Some(Truncate(call_tool.value)))
    /\ txn' = <<>>
    /\ UNCHANGED <<backend_calls, agent, threads, tokVars, fsVars, now, rlVars, authVars>>

(***************************************************************************)
(* process_tool_invocation with the executor's call as a step of its own:  *)
(* the first commit, then either the denied commit or the call of          *)
(* call_tool and, when it has returned or raised, the commit of the        *)
(* outcome.                                                                *)
(***************************************************************************)
\* A slip of the first commit: its exception is swallowed and the executor
\* is called all the same.
ToolInsertRaisesThenCalls(tool_name, was_explicit, is_llm_request, user_confirmed) ==
    /\ txn = <<>>
    /\ executor_calls' = executor_calls + 1
    /\ ret' = ToolRet(tool_name, was_explicit, is_llm_request, user_confirmed,
                      NULL, NULL)
    /\ UNCHANGED <<extVars, tokVars, fsVars, tool_invocations, now, rlVars, authVars>>

\* session.add(inv); session.commit() raises: the exception leaves the with
\* block and the function, the row is rolled back.
ToolInsertRaises(tool_name, was_explicit, is_llm_request, user_confirmed) ==
    /\ txn = <<>>
    /\ ret' = [ToolRet(tool_name, was_explicit, is_llm_request, user_confirmed,
                       NULL, NULL) EXCEPT !.raised = "SQLAlchemyError"]
    /\ UNCHANGED <<extVars, tokVars, fsVars, toolVars, now, rlVars, authVars>>

\* session.add(inv); session.commit(); session.refresh(inv)
ToolInsertStep(tool_name, was_explicit, is_llm_request, user_confirmed) ==
    /\ txn = <<>>
    /\ tool_invocations' = Recorded(tool_invocations,
           NewInvocation(tool_name, was_explicit, user_confirmed))
    /\ txn' = [op |-> "process_tool_invocation", tool_name |-> tool_name,
               was_explicit |-> was_explicit, is_llm_request |-> is_llm_request,
               user_confirmed |-> user_confirmed,
               row |-> Len(tool_invocations) + 1, started |-> FALSE]
    /\ UNCHANGED <<backend_calls, agent, threads, tokVars, fsVars, executor_calls, now,
                   rlVars, authVars, ret>>

\* output = call_tool(tool_name, server_name, bearer_token): the call is made
ToolExecutorStart ==
    /\ txn # <<>>
    /\ txn.op = "process_tool_invocation"
    /\ ~txn.started
    /\ Allowed(txn.tool_name, txn.was_explicit, txn.is_llm_request,
               txn.user_confirmed)
    /\ executor_calls' = executor_calls + 1
    /\ txn' = [txn EXCEPT !.started = TRUE]
    /\ UNCHANGED <<backend_calls, agent, threads, tokVars, fsVars, tool_invocations, now,
                   rlVars, authVars, ret>>

\* call_tool has returned or raised: the outcome is written and committed
ToolExecutorEnd(call_tool) ==
    /\ txn # <<>>
    /\ txn.op = "process_tool_invocation"
    /\ txn.started
    /\ IF call_tool.raises
       THEN /\ tool_invocations' = [tool_invocations EXCEPT
                    ![txn.row] = FailedRow(@, call_tool.value)]
            /\ ret' = ToolRet(txn.tool_name, txn.was_explicit,
                              txn.is_llm_request, txn.user_confirmed, NULL, NULL)
       ELSE /\ tool_invocations' = [tool_invocations EXCEPT
                    ![txn.row] = SucceededRow(@, Truncate(call_tool.value))]
            /\ ret' = ToolRet(txn.tool_name, txn.was_explicit,
                              txn.is_llm_request, txn.user_confirmed,
                              Some(call_tool.value),
                              Some(Truncate(call_tool.value)))
    /\ txn' = <<>>
    /\ UNCHANGED <<backend_calls, agent, threads, tokVars, fsVars, executor_calls, now,
                   rlVars, authVars>>

\* authenticate_user_with_lockout up to the lockout test: the allow-list
\* test, then _get_or_create_user with its own commit.  raises says whether
\* the binder, when it is asked, raises instead of answering.
AuthUserCommit(username, password, ip, raises) ==
    /\ txn = <<>>
    /\ IF username \notin authorized_users
       THEN /\ ret' = AuthRet("authenticate_user_with_lockout", username,
                              password, ip, FALSE, NULL, FALSE)
            /\ UNCHANGED <<users, txn>>
       ELSE /\ users' = get_or_create_user(users, username)
            /\ IF IsLocked(users'[username], now)
               THEN /\ ret' = AuthRet("authenticate_user_with_lockout", username,
                                      password, ip, FALSE, NULL, FALSE)
                    /\ UNCHANGED txn
               ELSE /\ txn' = [op |-> "authenticate_user_with_lockout",
                               pc |-> "attempt", username |-> username,
                               password |-> password, ip |-> ip,
                               raises |-> raises,
                               before |-> <<users, login_attempts>>]
                    /\ UNCHANGED ret
    /\ UNCHANGED <<backend_calls, agent, threads, tokVars, fsVars, toolVars, now, rlVars,
                   login_attempts, binder_calls>>

\* The fetch-or-create of the pair's LoginAttempt with its own commit.
AuthAttemptCommit ==
    /\ txn # <<>>
    /\ txn.op = "authenticate_user_with_lockout"
    /\ txn.pc = "attempt"
    /\ login_attempts' = get_or_create_attempt(login_attempts,
                             AttemptKey(txn.username, txn.ip), now)
    /\ txn' = [txn EXCEPT !.pc = "binder"]
    /\ UNCHANGED <<backend_calls, agent, threads, tokVars, fsVars, toolVars, now, rlVars,
                   users, binder_calls, ret>>

\* ok = binder(username, password) and the commit of the outcome; when the
\* binder raises, the exception leaves the function and nothing is written.
AuthBinderCommit ==
    /\ txn # <<>>
    /\ txn.op = "authenticate_user_with_lockout"
    /\ txn.pc = "binder"
    /\ binder_calls' = binder_calls + 1
    /\ LET key == AttemptKey(txn.username, txn.ip)
           attempt == login_attempts[key]
           failed == FailedAttempt(attempt, now)
       IN  IF txn.raises
           THEN /\ ret' = [op |-> "authenticate_user_with_lockout",
                           user |-> txn.username, password |-> txn.password,
                           ip |-> txn.ip, raised |-> "Exception"]
                /\ UNCHANGED <<users, login_attempts>>
           ELSE IF binder(txn.username, txn.password)
           THEN /\ users' = [users EXCEPT ![txn.username].lockout_until = NULL]
                /\ login_attempts' = [login_attempts EXCEPT
                                         ![key] = SucceededAttempt(attempt, now)]
                /\ ret' = AuthRet("authenticate_user_with_lockout", txn.username,
                                  txn.password, txn.ip, TRUE,
                                  Some(attempt.count), TRUE)
           ELSE /\ login_attempts' = [login_attempts EXCEPT ![key] = failed]
                /\ users' = IF ReachedThreshold(failed.count)
                            THEN [users EXCEPT ![txn.username].lockout_until =
                                                   Some(now + LockoutMinutes)]
                            ELSE users
                /\ ret' = AuthRet("authenticate_user_with_lockout", txn.username,
                                  txn.password, txn.ip, TRUE,
                                  Some(attempt.count), FALSE)
    /\ txn' = <<>>
    /\ UNCHANGED <<backend_calls, agent, threads, tokVars, fsVars, toolVars, now, rlVars>>

Init ==
    /\ now = 0
    /\ global_degraded = FALSE
    /\ state = <<>>
    /\ users = <<>>
    /\ login_attempts = <<>>
    /\ binder_calls = 0
    /\ token_count = 0
    /\ expiries = <<>>
    /\ tool_invocations = <<>>
    /\ executor_calls = 0
    /\ backend_calls = 0
    /\ agent = <<>>
    /\ threads = <<>>
    /\ txn = <<>>
    /\ usage = <<>>
    /\ day = 0
    /\ fail_opens = FALSE
    /\ ret = [op |-> None, user |-> None, result |-> None]

RecordOperationCall ==
    \E user \in RLUsers :
        \* a window grows past max_ops + 1 timestamps only through repeated
        \* external resets: it is capped at max_ops + 2
        /\ Len(StateOf(state, user).ops) <= max_ops + 1
        /\ record_operation(user)

StartRequestCall ==
    \E user \in RLUsers, is_login \in BOOLEAN : start_request(user, is_login)

FinishRequestCall ==
    \E user \in RLUsers : finish_request(user)

NextRateLimiter ==
    \/ RecordOperationCall
    \/ StartRequestCall
    \/ FinishRequestCall
    \/ ResetDegraded
    \/ TickSecond

SpecRateLimiter == Init /\ [][NextRateLimiter]_vars

AuthenticateCall ==
    \E username \in Usernames, password \in Passwords :
        /\ binder_calls < MaxBinderCalls
        /\ authenticate_user(username, password)

AuthenticateWithLockoutCall ==
    \E username \in Usernames, password \in Passwords, ip \in Ips :
        /\ binder_calls < MaxBinderCalls
        /\ authenticate_user_with_lockout(username, password, ip)

NextAuthenticate ==
    \/ AuthenticateCall
    \/ TickMinute

SpecAuthenticate == Init /\ [][NextAuthenticate]_vars

NextAuth ==
    \/ AuthenticateWithLockoutCall
    \/ TickMinute

SpecAuth == Init /\ [][NextAuth]_vars

CreateUserCall ==
    \E username \in TokenUsers : CreateUser(username)

IssueTokenCall ==
    \E user_id \in TokenUsers :
        /\ token_count < MaxTokens
        /\ issue_token(user_id)

ValidateTokenCall ==
    \E token \in TokenArgs, t \in TokenTimes :
        /\ validate_and_touch_token(token, t)
        /\ UNCHANGED expiries

NextTokens ==
    \/ CreateUserCall
    \/ IssueTokenCall
    \/ ValidateTokenCall
    \/ TickHour

SpecTokens == Init /\ [][NextTokens]_vars

\* The validations of issued tokens, with the verdicts their callers have
\* seen kept in expiries.
ValidateTokenLoggedCall ==
    \E n \in 1..MaxTokens, t \in TokenTimes :
        /\ validate_and_touch_token(Some(n), t)
        /\ expiries' = LogVerdict(expiries, ret')

NextTokenHistory ==
    \/ CreateUserCall
    \/ IssueTokenCall
    \/ ValidateTokenLoggedCall

SpecTokenHistory == Init /\ [][NextTokenHistory]_vars

ProcessToolInvocationCall ==
    \E tool_name \in ToolNames, was_explicit \in BOOLEAN,
       is_llm_request \in BOOLEAN, user_confirmed \in OptionalBools,
       call_tool \in CallToolOutcomes :
        /\ Len(tool_invocations) < MaxInvocations
        /\ process_tool_invocation(tool_name, was_explicit, is_llm_request,
                                   user_confirmed, call_tool)

NextTools == ProcessToolInvocationCall

SpecTools == Init /\ [][NextTools]_vars

RunLLMCall ==
    \E username \in RLUsers, caller \in LLMCallerOutcomes :
        /\ backend_calls < MaxBackendCalls
        /\ run_llm(username, caller)

\* Calls through the Pydantic AI runner that share the limiter with the
\* wrapper's calls.
PydanticRunLLMShortCall ==
    \E username \in RLUsers, run_sync \in ShortAgentRunOutcomes :
        /\ backend_calls < MaxBackendCalls
        /\ pydantic_run_llm(username, run_sync)

NextLLM ==
    \/ RunLLMCall
    \/ PydanticRunLLMShortCall
    \/ ResetDegraded
    \/ TickSecond

SpecLLM == Init /\ [][NextLLM]_vars

\* One user's calls through the Pydantic AI runner.
PydanticRunLLMCall ==
    \E run_sync \in AgentRunOutcomes :
        /\ backend_calls < MaxPydanticCalls
        /\ pydantic_run_llm(ThreadUser, run_sync)

NextPydantic == PydanticRunLLMCall

SpecPydantic == Init /\ [][NextPydantic]_vars

GetServerStatusAndToolsCall ==
    \E loop_running \in BOOLEAN,
       clients \in [{Servers[i] : i \in DOMAIN Servers} -> ClientKinds] :
        GetServerStatusCall(loop_running, clients)

\* The steps of a get_server_status_and_tools call in progress.
AgentStep ==
    \/ ForServer
    \/ AsyncioRunDone
    \/ FutResultDone
    \/ FutResultTimeout
    \/ ShutdownDone
    \/ ReturnStatuses

NextAgent ==
    \/ GetServerStatusAndToolsCall
    \/ AgentStep

SpecAgent == Init /\ [][NextAgent]_vars

\* A call in progress takes its next step whenever it has one.
SpecAgentFair == SpecAgent /\ WF_vars(AgentStep)

ThreadCallStep ==
    \E t \in Threads, is_login \in BOOLEAN,
       op \in {"start_request", "finish_request", "record_operation"} :
        ThreadCall(t, op, is_login /\ op = "start_request")

NextThreads ==
    \/ ThreadCallStep
    \/ \E t \in Threads : StartReadDegraded(t)
    \/ \E t \in Threads : StartGetState(t)
    \/ \E t \in Threads : StartCheck(t)
    \/ \E t \in Threads : StartLoad(t)
    \/ \E t \in Threads : StartStore(t)
    \/ \E t \in Threads : FinishGetState(t)
    \/ \E t \in Threads : FinishCheck(t)
    \/ \E t \in Threads : FinishLoad(t)
    \/ \E t \in Threads : FinishStore(t)
    \/ \E t \in Threads : RecordReadDegraded(t)
    \/ \E t \in Threads : RecordPrune(t)
    \/ \E t \in Threads : RecordAppend(t)
    \/ \E t \in Threads : RecordLen(t)

SpecThreads == Init /\ [][NextThreads]_vars

ToolInsertCommitCall ==
    \E tool_name \in ToolNames, was_explicit \in BOOLEAN,
       is_llm_request \in BOOLEAN, user_confirmed \in OptionalBools :
        /\ Len(tool_invocations) < MaxInvocations
        /\ ToolInsertCommit(tool_name, was_explicit, is_llm_request,
                            user_confirmed)

ToolExecuteCommitStep ==
    \E call_tool \in CallToolOutcomes : ToolExecuteCommit(call_tool)

NextToolCommits ==
    \/ ToolInsertCommitCall
    \/ ToolDeniedCommit
    \/ ToolExecuteCommitStep

SpecToolCommits == Init /\ [][NextToolCommits]_vars

\* The number of invocations followed step by step.
MaxAuditedCalls == 1

ToolInsertRaisesCall ==
    \E tool_name \in ToolNames, was_explicit \in BOOLEAN,
       is_llm_request \in BOOLEAN, user_confirmed \in OptionalBools :
        ToolInsertRaises(tool_name, was_explicit, is_llm_request, user_confirmed)

ToolInsertStepCall ==
    \E tool_name \in ToolNames, was_explicit \in BOOLEAN,
       is_llm_request \in BOOLEAN, user_confirmed \in OptionalBools :
        /\ Len(tool_invocations) < MaxAuditedCalls
        /\ ToolInsertStep(tool_name, was_explicit, is_llm_request, user_confirmed)

ToolExecutorEndStep ==
    \E call_tool \in CallToolOutcomes : ToolExecutorEnd(call_tool)

NextToolSteps ==
    \/ ToolInsertRaisesCall
    \/ ToolInsertStepCall
    \/ ToolDeniedCommit
    \/ ToolExecutorStart
    \/ ToolExecutorEndStep

SpecToolSteps == Init /\ [][NextToolSteps]_vars

AuthUserCommitCall ==
    \E username \in Usernames, password \in Passwords, ip \in Ips,
       raises \in BOOLEAN :
        /\ binder_calls < MaxBinderCalls
        /\ AuthUserCommit(username, password, ip, raises)

NextAuthCommits ==
    \/ AuthUserCommitCall
    \/ AuthAttemptCommit
    \/ AuthBinderCommit

SpecAuthCommits == Init /\ [][NextAuthCommits]_vars

\* The requests that reach the middleware; the model stops following a
\* user's row at MaxUsage.
DispatchCall ==
    \E request \in Requests :
        /\ request.user # NULL => UsageOf(usage, request.user[1], day) < MaxUsage
        /\ dispatch(request)

NextFileserver == DispatchCall

SpecFileserver == Init /\ [][NextFileserver]_vars

AuthThreadCallStep ==
    \E t \in Threads, password \in Passwords : AuthThreadCall(t, password)

NextAuthThreads ==
    \/ AuthThreadCallStep
    \/ \E t \in Threads : AuthThreadSelect(t)
    \/ \E t \in Threads : AuthThreadInsert(t)
    \/ \E t \in Threads : AuthThreadBinder(t)
    \/ \E t \in Threads : AuthThreadCommit(t)

SpecAuthThreads == Init /\ [][NextAuthThreads]_vars

Next ==
    \/ NextToolCommits
    \/ NextAuthCommits
    \/ NextAuthThreads
    \/ NextFileserver
    \/ NextToolSteps
    \/ NextThreads
    \/ NextAgent
    \/ NextRateLimiter \/ NextAuthenticate \/ NextAuth \/ NextTokens
    \/ NextTokenHistory
    \/ NextTools \/ NextLLM \/ NextPydantic

Spec == Init /\ [][Next]_vars

(***************************************************************************)
(* Rate limiter claims                                                     *)
(***************************************************************************)
\* The user's window and concurrency counter in a RateLimiter._state value.
OpsOf(s, user) == StateOf(s, user).ops
ConcurrentOf(s, user) == StateOf(s, user).concurrent

\* The number of timestamps of a window that are at most window_secs older
\* than t.
CountNotOlderThanWindow(ops, t) ==
    Cardinality({i \in DOMAIN ops : t - ops[i] <= window})

\* Every timestamp of the user's window lies inside the window that ends at
\* the clock: strictly less than window_secs ago.
AllInsideWindow(user) ==
    \A i \in DOMAIN OpsOf(state, user) : now - OpsOf(state, user)[i] < window

\* C1: starting non-degraded, when all of a user's recorded operations lie
\* inside one window, the first max_ops record_operation calls return true
\* and leave the flag clear, the (max_ops+1)-th returns false and sets
\* global_degraded; while degraded, record_operation returns false for every
\* user and the flag stays set.
C1_TripAtMaxOpsPlusOne ==
    [][\A user \in RLUsers :
          record_operation(user) =>
              LET k == Len(OpsOf(state, user))
              IN  /\ (~global_degraded /\ AllInsideWindow(user) /\ k < max_ops)
                        => (ret'.result = TRUE /\ ~global_degraded')
                  /\ (~global_degraded /\ AllInsideWindow(user) /\ k = max_ops)
                        => (ret'.result = FALSE /\ global_degraded')
                  /\ global_degraded
                        => (ret'.result = FALSE /\ global_degraded')]_vars

\* C1 witness: one user's window holds max_ops + 1 timestamps of one window,
\* the flag is set, and another user, with no recorded operation, has just
\* been refused.
C1_Witness ==
    /\ global_degraded
    /\ ret.op = "record_operation"
    /\ ret.result = FALSE
    /\ \E u \in RLUsers :
          /\ u # ret.user
          /\ Len(OpsOf(state, u)) = max_ops + 1
          /\ AllInsideWindow(u)
          /\ OpsOf(state, ret.user) = <<>>

\* C2: no step of record_operation, start_request or finish_request, and no
\* passage of time, clears global_degraded: it goes from true to false only
\* in a step of the external reset.
C2_DegradedOnlyResetClears ==
    [][(global_degraded /\ ~global_degraded')
          => ResetDegraded]_vars

\* C2 witness: the flag is still set although every recorded operation has
\* left the window, and a request has been finished since.
C2_Witness ==
    /\ global_degraded
    /\ ret.op = "finish_request"
    /\ \E u \in RLUsers : OpsOf(state, u) # <<>>
    /\ \A u \in RLUsers :
          \A i \in DOMAIN OpsOf(state, u) : now - OpsOf(state, u)[i] > window

\* C3: every user's concurrent count stays within 0..max_concurrent; a
\* non-degraded start_request is accepted, adding exactly one, exactly when
\* the count is below max_concurrent, and is refused without a change
\* otherwise; a finish_request at the cap frees one slot.
C3_ConcurrencyCap ==
    /\ [](\A user \in RLUsers : ConcurrentOf(state, user) \in 0..max_concurrent)
    /\ [][\A user \in RLUsers, is_login \in BOOLEAN :
             (~global_degraded /\ start_request(user, is_login)) =>
                 IF ConcurrentOf(state, user) < max_concurrent
                 THEN /\ ret'.result = TRUE
                      /\ ConcurrentOf(state', user) = ConcurrentOf(state, user) + 1
                 ELSE /\ ret'.result = FALSE
                      /\ ConcurrentOf(state', user) = ConcurrentOf(state, user)]_vars
    /\ [][\A user \in RLUsers :
             (finish_request(user) /\ ConcurrentOf(state, user) = max_concurrent)
                 => ConcurrentOf(state', user) = max_concurrent - 1]_vars

\* C3 witness: not degraded, a user holds max_concurrent slots and the next
\* start_request has just been refused.
C3_Witness ==
    /\ ~global_degraded
    /\ ret.op = "start_request"
    /\ ret.result = FALSE
    /\ ConcurrentOf(state, ret.user) = max_concurrent

\* C4: while degraded, start_request(u, is_login=false) is refused and
\* changes nothing of the limiter's state; start_request(u, is_login=true)
\* is accepted, adding one to u's count, if and only if u's count is below
\* max_concurrent.
C4_LoginBypassesDegraded ==
    [][\A user \in RLUsers :
          global_degraded =>
              /\ start_request(user, FALSE)
                    => (ret'.result = FALSE /\ state' = state)
              /\ start_request(user, TRUE)
                    => /\ ret'.result = (ConcurrentOf(state, user) < max_concurrent)
                       /\ ConcurrentOf(state', user) =
                              IF ConcurrentOf(state, user) < max_concurrent
                              THEN ConcurrentOf(state, user) + 1
                              ELSE ConcurrentOf(state, user)]_vars

\* C4 witness: degraded, and a login request has just been accepted for a
\* user who now holds max_concurrent slots.
C4_Witness ==
    /\ global_degraded
    /\ ret.op = "start_request"
    /\ ret.is_login
    /\ ret.result = TRUE
    /\ ConcurrentOf(state, ret.user) = max_concurrent

\* C5: a record_operation evaluated at the clock does not count the
\* timestamps recorded more than window_secs before it: non-degraded, it
\* returns true whenever fewer than max_ops of the user's timestamps are at
\* most window_secs old, and none older than that stays in the window.
C5_SlidingWindow ==
    [][\A user \in RLUsers :
          (~global_degraded /\ record_operation(user)) =>
              /\ CountNotOlderThanWindow(OpsOf(state, user), now) < max_ops
                    => (ret'.result = TRUE /\ ~global_degraded')
              /\ \A i \in DOMAIN OpsOf(state', user) :
                    now - OpsOf(state', user)[i] <= window]_vars

\* C5 witness: after a reset, a record_operation more than window_secs after
\* the operations that tripped the breaker dropped all max_ops + 1 of them
\* and returned true.
C5_Witness ==
    /\ ret.op = "record_operation"
    /\ ret.result = TRUE
    /\ ret.pruned = max_ops + 1
    /\ OpsOf(state, ret.user) = <<now>>
    /\ ~global_degraded

(***************************************************************************)
(* Authenticator claims                                                    *)
(***************************************************************************)
\* The stored lockout_until of a username (NULL without a row), the stored
\* count of a (username, ip) pair (0 without a row), and whether the stored
\* lockout is later than the clock.
LockoutUntilOf(tbl, username) ==
    IF username \in DOMAIN tbl THEN tbl[username].lockout_until ELSE NULL
CountOf(tbl, username, ip) ==
    IF <<username, ip>> \in DOMAIN tbl THEN tbl[<<username, ip>>].count ELSE 0
LockedOut(username) ==
    /\ LockoutUntilOf(users, username) # NULL
    /\ LockoutUntilOf(users, username)[1] > now

\* C6: for an authorized username that is not locked out, a failed call adds
\* one to the count of its (username, ip) pair, so the third failure in a row
\* from count 0 brings it to 3 and sets lockout_until to now + 15 minutes, a
\* timestamp in the future, while the first and second leave lockout_until
\* alone; a call before that expiry returns false and the binder call count
\* stays what it was.
C6_ThirdFailureLocks ==
    [][\A username \in authorized_users, password \in Passwords, ip \in Ips :
          authenticate_user_with_lockout(username, password, ip) =>
              IF LockedOut(username)
              THEN ret'.result = FALSE /\ binder_calls' = binder_calls
              ELSE ~binder(username, password) =>
                      LET c == CountOf(login_attempts, username, ip)
                      IN  /\ ret'.result = FALSE
                          /\ CountOf(login_attempts', username, ip) = c + 1
                          /\ c + 1 = LockoutThreshold =>
                                /\ LockoutUntilOf(users', username)
                                       = Some(now + LockoutMinutes)
                                /\ LockoutUntilOf(users', username)[1] > now
                          /\ c + 1 < LockoutThreshold =>
                                LockoutUntilOf(users', username)
                                    = LockoutUntilOf(users, username)]_vars

\* C6 witness: after exactly three binder calls, all failures of one pair,
\* the account is locked and a further call of that pair has been refused
\* without the binder.
C6_Witness ==
    /\ ret.op = "authenticate_user_with_lockout"
    /\ ret.user \in authorized_users
    /\ ret.result = FALSE
    /\ ~ret.binder_invoked
    /\ binder_calls = 3
    /\ CountOf(login_attempts, ret.user, ret.ip) = 3
    /\ LockedOut(ret.user)

\* C7: while User.lockout_until is set and later than now, a call for that
\* username, from any ip and with any password, returns false, leaves the
\* users and login_attempts tables as they are and does not invoke the
\* binder.
C7_LockedCallTouchesNothing ==
    [][\A username \in Usernames, password \in Passwords, ip \in Ips :
          (LockedOut(username)
             /\ authenticate_user_with_lockout(username, password, ip)) =>
              /\ ret'.result = FALSE
              /\ users' = users
              /\ login_attempts' = login_attempts
              /\ binder_calls' = binder_calls]_vars

\* C7 witness: a locked-out user has just been refused with the correct
\* password, from an ip that has no LoginAttempt row.
C7_Witness ==
    /\ ret.op = "authenticate_user_with_lockout"
    /\ LockedOut(ret.user)
    /\ ret.password = "goodpass"
    /\ ret.result = FALSE
    /\ ~ret.binder_invoked
    /\ <<ret.user, ret.ip>> \notin DOMAIN login_attempts

\* The rows of a login_attempts table other than the pair's are those of
\* another table, unchanged.
OtherPairsSame(before, after, username, ip) ==
    /\ DOMAIN after \subseteq (DOMAIN before) \cup {<<username, ip>>}
    /\ \A k \in DOMAIN before : k # <<username, ip>> => after[k] = before[k]

\* C8: a call from ip A changes the LoginAttempt row of no pair but (u, A);
\* lockout_until is set only while some single pair of u has a count of at
\* least 3; and once it is set and later than now, calls for u from every ip
\* are refused, and at or after its expiry they reach the binder again.
C8_PerPairCountAccountWideLock ==
    /\ [][\A username \in Usernames, password \in Passwords, ip \in Ips :
             authenticate_user_with_lockout(username, password, ip) =>
                 /\ OtherPairsSame(login_attempts, login_attempts', username, ip)
                 /\ IF LockedOut(username)
                    THEN ret'.result = FALSE
                    ELSE username \in authorized_users
                             => binder_calls' = binder_calls + 1]_vars
    /\ [](\A username \in Usernames :
             LockoutUntilOf(users, username) # NULL =>
                 \E ip \in Ips :
                     CountOf(login_attempts, username, ip) >= LockoutThreshold)

\* C8 witness: two failures from each of two ips have not locked the user.
C8_Witness ==
    \E username \in authorized_users :
        /\ \A ip \in Ips : CountOf(login_attempts, username, ip) = 2
        /\ LockoutUntilOf(users, username) = NULL
        /\ ret.op = "authenticate_user_with_lockout"
        /\ ret.user = username
        /\ ret.result = FALSE

\* C9: when the binder accepts an authorized user who is not locked out, the
\* call returns true, lockout_until is null afterwards and the count of the
\* calling pair is 0, whatever it was, while the other pairs keep theirs.
C9_SuccessResets ==
    [][\A username \in authorized_users, password \in Passwords, ip \in Ips :
          (authenticate_user_with_lockout(username, password, ip)
             /\ ~LockedOut(username) /\ binder(username, password)) =>
              /\ ret'.result = TRUE
              /\ LockoutUntilOf(users', username) = NULL
              /\ <<username, ip>> \in DOMAIN login_attempts'
              /\ CountOf(login_attempts', username, ip) = 0
              /\ OtherPairsSame(login_attempts, login_attempts', username, ip)]_vars

\* C9 witness: a success from a pair whose count had reached the threshold,
\* after the lockout it caused had expired.
C9_Witness ==
    /\ ret.op = "authenticate_user_with_lockout"
    /\ ret.result = TRUE
    /\ ret.seen_count = Some(LockoutThreshold)
    /\ CountOf(login_attempts, ret.user, ret.ip) = 0
    /\ LockoutUntilOf(users, ret.user) = NULL

\* C10: authenticate_user returns true if and only if the username is on the
\* allow-list and the binder accepts (username, password); the binder is
\* invoked once when the username is on the allow-list and not at all when it
\* is not.
C10_AllowListThenBinder ==
    [][\A username \in Usernames, password \in Passwords :
          authenticate_user(username, password) =>
              /\ ret'.result = (username \in authorized_users
                                  /\ binder(username, password))
              /\ binder_calls' = binder_calls
                     + (IF username \in authorized_users THEN 1 ELSE 0)]_vars

\* C10 witness: a username that is not on the allow-list has been refused
\* with a password the binder would accept, without a binder call.
C10_Witness ==
    /\ ret.op = "authenticate_user"
    /\ ret.user \notin authorized_users
    /\ binder(ret.user, ret.password)
    /\ ret.result = FALSE
    /\ ~ret.binder_invoked
    /\ binder_calls = 1

\* C11: a call for a username that is not on the allow-list returns false,
\* leaves the users and login_attempts tables as they are and does not
\* invoke the binder; however often it is repeated, such a username has no
\* User row and no LoginAttempt row.
C11_UnauthorizedTouchesNothing ==
    /\ [][\A username \in Usernames \ authorized_users,
             password \in Passwords, ip \in Ips :
             authenticate_user_with_lockout(username, password, ip) =>
                 /\ ret'.result = FALSE
                 /\ users' = users
                 /\ login_attempts' = login_attempts
                 /\ binder_calls' = binder_calls]_vars
    /\ [](\A username \in Usernames \ authorized_users :
             /\ username \notin DOMAIN users
             /\ \A ip \in Ips : <<username, ip>> \notin DOMAIN login_attempts)

\* C11 witness: a username that is not on the allow-list has just been
\* refused, with a password the binder would accept, after authorized users'
\* calls have filled the tables; the binder was not invoked for it.
C11_Witness ==
    /\ ret.op = "authenticate_user_with_lockout"
    /\ ret.user \notin authorized_users
    /\ binder(ret.user, ret.password)
    /\ ret.result = FALSE
    /\ ~ret.binder_invoked
    /\ ret.user \notin DOMAIN users
    /\ DOMAIN users = authorized_users
    /\ binder_calls = Cardinality(authorized_users)


(***************************************************************************)
(* Tokens                                                                  *)
(***************************************************************************)
\* The users a lookup by the presented token finds.
HoldersOf(tbl, tok) == {u \in DOMAIN tbl : tbl[u].token = tok}

\* The time a validation of this row measures idleness from: the last
\* activity when there is one, else the issuance; <<>> when neither exists.
BaselineOf(row) ==
    IF row.last_activity_at # <<>> THEN row.last_activity_at
    ELSE row.token_issued_at

\* C12: issue_token for an existing user replaces that user's token in one
\* update: the stored token is the newly returned value and differs from the
\* previous one, token_issued_at is now, last_activity_at is null, and no
\* other row changes; an issued token string that no row holds is never held
\* again, and validate_and_touch_token of it returns invalid at any time.
C12_IssueReplacesToken ==
    /\ [][\A user_id \in TokenUsers :
             (issue_token(user_id) /\ user_id \in DOMAIN users) =>
                 /\ ret'.raised = None
                 /\ ret'.result # <<>>
                 /\ users'[user_id].token = ret'.result
                 /\ users'[user_id].token # users[user_id].token
                 /\ users'[user_id].token_issued_at = <<now>>
                 /\ users'[user_id].last_activity_at = <<>>
                 /\ \A v \in DOMAIN users' \ {user_id} : users'[v] = users[v]
                 /\ users[user_id].token # <<>> =>
                        HoldersOf(users', users[user_id].token) = {}]_vars
    /\ [][\A n \in 1..MaxTokens :
             (n <= token_count /\ HoldersOf(users, <<n>>) = {}) =>
                 /\ HoldersOf(users', <<n>>) = {}
                 /\ \A t \in TokenTimes :
                       validate_and_touch_token(<<n>>, t) =>
                           ret'.result = FALSE]_vars

\* The previous token of a user who holds a newer, still fresh one was
\* presented and found invalid.
C12_Witness ==
    /\ ret.op = "validate_and_touch_token"
    /\ ret.raised = None
    /\ ret.token # <<>>
    /\ ret.token[1] \in 1..token_count
    /\ ret.result = FALSE
    /\ ret.at = now
    /\ \E u \in DOMAIN users :
          /\ users[u].token = <<ret.token[1] + 1>>
          /\ users[u].token_issued_at = <<now>>
          /\ users[u].last_activity_at = <<>>
    /\ \A u \in DOMAIN users : users[u].token # ret.token
    /\ Cardinality(DOMAIN users) = 1

\* C13: issue_token for a user id that has no row raises ValueError, returns
\* no token and leaves every user's row unchanged.
C13_IssueMissingUserRaises ==
    [][\A user_id \in TokenUsers :
          (issue_token(user_id) /\ user_id \notin DOMAIN users) =>
              /\ ret'.raised = "ValueError"
              /\ ret'.result = <<>>
              /\ users' = users]_vars

\* issue_token raised for a missing user while another user holds a token.
C13_Witness ==
    /\ ret.op = "issue_token"
    /\ ret.raised = "ValueError"
    /\ ret.user \notin DOMAIN users
    /\ \E u \in DOMAIN users : users[u].token # <<>>

\* C14: validate_and_touch_token of a token that one user holds returns
\* valid exactly when that user has a baseline (last_activity_at, else
\* token_issued_at) and now - baseline <= idle_hours; a lookup that finds a
\* row with neither timestamp returns invalid.
C14_ValidIffWithinIdle ==
    [][\A tok \in TokenArgs, t \in TokenTimes :
          (/\ validate_and_touch_token(tok, t)
           /\ Cardinality(HoldersOf(users, tok)) = 1) =>
              /\ ret'.raised = None
              /\ \A u \in HoldersOf(users, tok) :
                    ret'.result = (/\ BaselineOf(users[u]) # <<>>
                                   /\ t - BaselineOf(users[u])[1] <= idle_hours)]_vars

\* A validation exactly idle_hours after the baseline returned valid.
C14_Witness ==
    /\ ret.op = "validate_and_touch_token"
    /\ ret.raised = None
    /\ ret.token # <<>>
    /\ ret.result = TRUE
    /\ ret.baseline = <<ret.at - idle_hours>>

\* C15: every validation that returns valid sets the holder's
\* last_activity_at to now and changes nothing else, and a token whose last
\* valid use (or, unused, whose issuance) is at most idle_hours before now is
\* valid however long ago it was issued.
C15_RollingIdleTimeout ==
    [][\A n \in 1..MaxTokens, t \in TokenTimes :
          validate_and_touch_token(<<n>>, t) =>
              \A u \in HoldersOf(users, <<n>>) :
                  /\ ret'.result = TRUE =>
                        users' = [users EXCEPT ![u].last_activity_at = <<t>>]
                  /\ (/\ users[u].last_activity_at # <<>>
                      /\ t - users[u].last_activity_at[1] <= idle_hours)
                        => ret'.result = TRUE
                  /\ (/\ users[u].last_activity_at = <<>>
                      /\ t - users[u].token_issued_at[1] <= idle_hours)
                        => ret'.result = TRUE]_vars

\* A token issued more than idle_hours ago, kept alive by an earlier use,
\* was found valid.
C15_Witness ==
    /\ ret.op = "validate_and_touch_token"
    /\ ret.raised = None
    /\ ret.result = TRUE
    /\ ret.token # <<>>
    /\ ret.baseline # <<>>
    /\ \E u \in DOMAIN users :
          /\ users[u].token = ret.token
          /\ users[u].last_activity_at = <<ret.at>>
          /\ ret.at - users[u].token_issued_at[1] > idle_hours
          /\ ret.baseline # users[u].token_issued_at
          /\ ret.baseline[1] > users[u].token_issued_at[1]

\* C16: a validate_and_touch_token call that returns invalid changes no
\* user's row.
C16_InvalidTouchesNothing ==
    [][\A tok \in TokenArgs, t \in TokenTimes :
          (/\ validate_and_touch_token(tok, t)
           /\ ret'.raised = None
           /\ ret'.result = FALSE) =>
              users' = users]_vars

\* A token some user holds was found idle-expired, and its row still shows
\* the baseline the call read.
C16_Witness ==
    /\ ret.op = "validate_and_touch_token"
    /\ ret.raised = None
    /\ ret.result = FALSE
    /\ ret.baseline # <<>>
    /\ ret.at - ret.baseline[1] > idle_hours
    /\ ret.token # <<>>
    /\ \E u \in DOMAIN users :
          /\ users[u].token = ret.token
          /\ users[u].last_activity_at = ret.baseline

(***************************************************************************)
(* Tool invocation gatekeeper                                              *)
(***************************************************************************)
\* The audit row of the latest invocation.
LastRow(tbl) == tbl[Len(tbl)]

\* The text of the denial.
DenialText == <<"User confirmation required and not granted">>

\* C17: for every combination of inputs the executor is invoked (once) if
\* and only if NOT (tool in confirmation_required_tools AND is_llm_request
\* AND NOT was_explicit) OR user_confirmed is true; an explicit invocation
\* always executes, a required confirmation that is None or false never does.
C17_ExecutorIffAllowed ==
    [][\A tool_name \in ToolNames, was_explicit \in BOOLEAN,
          is_llm_request \in BOOLEAN, user_confirmed \in OptionalBools,
          call_tool \in CallToolOutcomes :
          process_tool_invocation(tool_name, was_explicit, is_llm_request,
                                  user_confirmed, call_tool) =>
              /\ executor_calls' \in {executor_calls, executor_calls + 1}
              /\ (executor_calls' = executor_calls + 1) <=>
                    (\/ ~(/\ tool_name \in confirmation_required_tools
                          /\ is_llm_request
                          /\ ~was_explicit)
                     \/ user_confirmed = <<TRUE>>)
              /\ was_explicit => executor_calls' = executor_calls + 1]_vars

\* After a denied invocation, an explicit, LLM-originated, unconfirmed
\* invocation of a confirmation-required tool was executed.
C17_Witness ==
    /\ ret.op = "process_tool_invocation"
    /\ ret.tool_name \in confirmation_required_tools
    /\ ret.was_explicit
    /\ ret.is_llm_request
    /\ ret.user_confirmed = <<>>
    /\ ret.result # <<>>
    /\ Len(tool_invocations) = 2
    /\ executor_calls = 1

\* C18: when confirmation is required and not granted the call returns None,
\* the executor is not invoked, and the invocation's audit row has
\* success = false, no output and a non-empty error message.
C18_DeniedIsAudited ==
    [][\A tool_name \in ToolNames, was_explicit \in BOOLEAN,
          is_llm_request \in BOOLEAN, user_confirmed \in OptionalBools,
          call_tool \in CallToolOutcomes :
          (/\ process_tool_invocation(tool_name, was_explicit, is_llm_request,
                                      user_confirmed, call_tool)
           /\ tool_name \in confirmation_required_tools
           /\ is_llm_request
           /\ ~was_explicit
           /\ user_confirmed # <<TRUE>>) =>
              /\ ret'.result = <<>>
              /\ ret'.raised = None
              /\ executor_calls' = executor_calls
              /\ Len(tool_invocations') > Len(tool_invocations)
              /\ LastRow(tool_invocations').tool_name = tool_name
              /\ LastRow(tool_invocations').success = FALSE
              /\ LastRow(tool_invocations').output_text = <<>>
              /\ LastRow(tool_invocations').error_message # <<>>
              /\ LastRow(tool_invocations').error_message[1] # <<>>]_vars

\* An LLM-recommended delete_file with user_confirmed = False was denied.
C18_Witness ==
    /\ ret.op = "process_tool_invocation"
    /\ ret.tool_name = "delete_file"
    /\ ret.is_llm_request
    /\ ~ret.was_explicit
    /\ ret.user_confirmed = <<FALSE>>
    /\ ret.result = <<>>
    /\ executor_calls = 0
    /\ Len(tool_invocations) = 1
    /\ LastRow(tool_invocations).error_message = <<DenialText>>

\* C19: every call adds exactly one audit row, for its own tool, and leaves
\* the earlier rows as they were; the executor never ran more often than
\* there are rows.
C19_OneRowPerInvocation ==
    /\ [][\A tool_name \in ToolNames, was_explicit \in BOOLEAN,
             is_llm_request \in BOOLEAN, user_confirmed \in OptionalBools,
             call_tool \in CallToolOutcomes :
             process_tool_invocation(tool_name, was_explicit, is_llm_request,
                                     user_confirmed, call_tool) =>
                 /\ Len(tool_invocations') = Len(tool_invocations) + 1
                 /\ SubSeq(tool_invocations', 1, Len(tool_invocations))
                       = tool_invocations
                 /\ LastRow(tool_invocations').tool_name = tool_name
                 /\ LastRow(tool_invocations').was_explicit = was_explicit]_vars
    /\ [](executor_calls <= Len(tool_invocations))

\* Two invocations, one denied and one whose executor failed, left two rows.
C19_Witness ==
    /\ ret.op = "process_tool_invocation"
    /\ Len(tool_invocations) = 2
    /\ executor_calls = 1
    /\ tool_invocations[1].error_message = <<DenialText>>
    /\ tool_invocations[2].success = FALSE
    /\ tool_invocations[2].error_message = <<<<"tool failed">>>>

\* C20: when the executor raises in an allowed invocation the call returns
\* None without raising, and the audit row has success = false and the
\* error's text.
C20_ExecutorFailureCaught ==
    [][\A tool_name \in ToolNames, was_explicit \in BOOLEAN,
          is_llm_request \in BOOLEAN, user_confirmed \in OptionalBools,
          call_tool \in CallToolOutcomes :
          (/\ process_tool_invocation(tool_name, was_explicit, is_llm_request,
                                      user_confirmed, call_tool)
           /\ executor_calls' # executor_calls
           /\ call_tool.raises) =>
              /\ ret'.result = <<>>
              /\ ret'.raised = None
              /\ Len(tool_invocations') = Len(tool_invocations) + 1
              /\ LastRow(tool_invocations').success = FALSE
              /\ LastRow(tool_invocations').output_text = <<>>
              /\ LastRow(tool_invocations').error_message
                    = <<call_tool.value>>]_vars

\* A confirmed LLM-recommended delete_file whose executor raised.
C20_Witness ==
    /\ ret.op = "process_tool_invocation"
    /\ ret.tool_name = "delete_file"
    /\ ret.is_llm_request
    /\ ~ret.was_explicit
    /\ ret.user_confirmed = <<TRUE>>
    /\ ret.result = <<>>
    /\ executor_calls = 1
    /\ Len(tool_invocations) = 1
    /\ LastRow(tool_invocations).success = FALSE
    /\ LastRow(tool_invocations).error_message = <<<<"tool failed">>>>

\* The smaller of two numbers.
Min(a, b) == IF a <= b THEN a ELSE b

\* C21: when the executor returns, the text stored in the audit row and the
\* text returned are the same, of length min(len(output), max_output): the
\* first max_output characters of a longer output, the output itself
\* otherwise.
C21_OutputTruncated ==
    [][\A tool_name \in ToolNames, was_explicit \in BOOLEAN,
          is_llm_request \in BOOLEAN, user_confirmed \in OptionalBools,
          call_tool \in CallToolOutcomes :
          (/\ process_tool_invocation(tool_name, was_explicit, is_llm_request,
                                      user_confirmed, call_tool)
           /\ executor_calls' # executor_calls
           /\ ~call_tool.raises) =>
              /\ ret'.result # <<>>
              /\ LastRow(tool_invocations').success = TRUE
              /\ LastRow(tool_invocations').output_text = ret'.result
              /\ Len(ret'.result[1]) = Min(Len(call_tool.value), max_output)
              /\ \A i \in 1..Len(ret'.result[1]) :
                    ret'.result[1][i] = call_tool.value[i]]_vars

\* An output of max_output + 1 characters was cut to max_output characters.
C21_Witness ==
    /\ ret.op = "process_tool_invocation"
    /\ ret.output # <<>>
    /\ Len(ret.output[1]) = max_output + 1
    /\ ret.result # <<>>
    /\ Len(ret.result[1]) = max_output
    /\ LastRow(tool_invocations).success = TRUE
    /\ LastRow(tool_invocations).output_text = ret.result

(***************************************************************************)
(* LLM call wrapper claims                                                 *)
(***************************************************************************)
\* The window new is the window old with some of its oldest timestamps
\* dropped and exactly the one timestamp t appended.
OneAppended(old, new, t) ==
    \E k \in 0..Len(old) : new = Append(SubSeq(old, k + 1, Len(old)), t)

\* C22 as stated: every run_llm call, in whatever state the rate limiter
\* is, appends exactly one timestamp to the calling user's window.
C22_Original ==
    [][\A username \in RLUsers, caller \in LLMCallerOutcomes :
          run_llm(username, caller) =>
              /\ OpsOf(state', username) # OpsOf(state, username)
              /\ OneAppended(OpsOf(state, username), OpsOf(state', username), now)]_vars

\* C22 amended: every run_llm call calls record_operation once for the
\* calling user before the backend is invoked, so also when the backend
\* raises: while the limiter is not degraded exactly the timestamp now is
\* appended to that user's window (after pruning) and no other window
\* changes; while it is degraded nothing is recorded.
C22_RecordsOneOperationUnlessDegraded ==
    [][\A username \in RLUsers, caller \in LLMCallerOutcomes :
          run_llm(username, caller) =>
              /\ ret'.recorded # <<>>
              /\ backend_calls' = backend_calls + 1
              /\ ~global_degraded =>
                    /\ OpsOf(state', username) # OpsOf(state, username)
                    /\ OneAppended(OpsOf(state, username),
                                   OpsOf(state', username), now)
                    /\ ret'.ops_at_backend = Len(OpsOf(state', username))
                    /\ \A u \in RLUsers \ {username} :
                          OpsOf(state', u) = OpsOf(state, u)
              /\ global_degraded =>
                    /\ state' = state
                    /\ ret'.recorded = <<FALSE>>]_vars

\* A run_llm whose backend raised left its timestamp in the user's window.
C22_Witness ==
    /\ ret.op = "run_llm"
    /\ ret.raised = "Exception"
    /\ ret.recorded = <<TRUE>>
    /\ OpsOf(state, ret.user) = <<now>>
    /\ ret.ops_at_backend = 1
    /\ backend_calls = 1

(***************************************************************************)
(* MCP server registry claims                                              *)
(***************************************************************************)
\* C23: in the statuses a call returns, a server whose tool listing failed
\* (list_tools or its coroutine raised) or, on the offload path, did not
\* complete within the timeout, has status not_connected and no tools.
C23_FailedListingNotConnected ==
    ret.op = "get_server_status_and_tools" =>
        \A i \in DOMAIN Servers :
            (\/ ret.clients[Servers[i]] \in {"call_raises", "coro_raises"}
             \/ ret.loop_running /\ ret.clients[Servers[i]] = "slow_returns")
                => ret.result[Servers[i]] =
                      [status |-> "not_connected", tools |-> <<>>]

\* C24: every get_server_status_and_tools call eventually returns, with or
\* without a running event loop, also when a list_tools coroutine never
\* completes.
C24_AlwaysReturns == (agent # <<>>) ~> (agent = <<>>)

(***************************************************************************)
(* Concurrent RateLimiter claims                                           *)
(***************************************************************************)
\* The increments minus the decrements made by the calls of the threads in S.
RECURSIVE NetOf(_)
NetOf(S) ==
    IF S = {} THEN 0
    ELSE LET t == CHOOSE x \in S : TRUE
         IN  (IF t \in DOMAIN threads THEN threads[t].net ELSE 0)
                + NetOf(S \ {t})

\* C25: under any interleaving of the threads' calls for one user, the
\* user's concurrent count stays within [0, max_concurrent], and when no
\* call is in progress it equals the increments minus the decrements the
\* calls made (no update is lost).
C25_AtomicUnderInterleaving ==
    /\ ConcurrentOf(state, ThreadUser) \in 0..max_concurrent
    /\ (\A t \in DOMAIN threads : threads[t].pc = "idle") =>
           ConcurrentOf(state, ThreadUser) = NetOf(Threads)

(***************************************************************************)
(* RateLimiter claims, continued                                           *)
(***************************************************************************)
\* C26: record_operation drops only the timestamps strictly older than
\* now - window_secs, so those recorded exactly window_secs ago still count:
\* a non-degraded call that finds max_ops timestamps at most window_secs old
\* returns false and sets degraded, and it keeps every such timestamp.
C26_BoundaryTimestampCounts ==
    [][\A user \in RLUsers :
          (~global_degraded /\ record_operation(user)) =>
              /\ CountNotOlderThanWindow(OpsOf(state, user), now) >= max_ops
                    => (ret'.result = FALSE /\ global_degraded')
              /\ ret'.pruned =
                    Len(OpsOf(state, user))
                        - CountNotOlderThanWindow(OpsOf(state, user), now)]_vars

\* C27: a record_operation call made while degraded returns false and
\* changes nothing in the limiter: no window gains or loses a timestamp, no
\* user's state is created, no concurrency counter changes, and the flag
\* stays set.
C27_DegradedRecordMutatesNothing ==
    [][\A user \in RLUsers :
          (global_degraded /\ record_operation(user)) =>
              /\ ret'.result = FALSE
              /\ DOMAIN state' = DOMAIN state
              /\ \A u \in DOMAIN state :
                    /\ OpsOf(state', u) = OpsOf(state, u)
                    /\ ConcurrentOf(state', u) = ConcurrentOf(state, u)
              /\ global_degraded']_vars

\* A degraded record_operation for a user the limiter has never seen, made
\* when another user's whole window had become old, left both as they were.
C27_Witness ==
    /\ ret.op = "record_operation"
    /\ ret.result = FALSE
    /\ global_degraded
    /\ ret.user \notin DOMAIN state
    /\ \E u \in DOMAIN state :
          /\ Len(OpsOf(state, u)) = max_ops + 1
          /\ \A i \in DOMAIN OpsOf(state, u) : now - OpsOf(state, u)[i] > window

\* C28: a finish_request called when the user's count is 0 leaves it at 0,
\* no count is ever negative, and whatever came before, a start_request is
\* accepted exactly when the count is below max_concurrent (and the request
\* is a login or the limiter is not degraded): surplus finish_request calls
\* grant no extra capacity.
C28_FinishNeverBelowZero ==
    /\ [][\A user \in RLUsers :
             finish_request(user) =>
                 /\ ConcurrentOf(state, user) = 0 =>
                       ConcurrentOf(state', user) = 0
                 /\ ConcurrentOf(state, user) > 0 =>
                       ConcurrentOf(state', user) = ConcurrentOf(state, user) - 1]_vars
    /\ [][\A user \in RLUsers, is_login \in BOOLEAN :
             (start_request(user, is_login) /\ (is_login \/ ~global_degraded)) =>
                 ret'.result = (ConcurrentOf(state, user) < max_concurrent)]_vars
    /\ [](\A user \in RLUsers : ConcurrentOf(state, user) \in 0..max_concurrent)

\* A surplus finish_request, which found the count at 0, left it at 0.
C28_Witness ==
    /\ ret.op = "finish_request"
    /\ ret.seen = 0
    /\ ret.user \in DOMAIN state
    /\ state[ret.user].concurrent = 0

(***************************************************************************)
(* Transaction claims                                                      *)
(***************************************************************************)
\* C29: no committed state shows a ToolInvocation row without its outcome:
\* every row of the table is a success or carries an error message.
C29_RowNeverWithoutOutcome ==
    \A i \in DOMAIN tool_invocations :
        \/ tool_invocations[i].success = TRUE
        \/ tool_invocations[i].error_message # <<>>

\* C30: a call of authenticate_user_with_lockout commits once: while a call
\* is in progress the committed tables are those it found, and a call whose
\* binder raises leaves no row behind.
C30_SingleTransactionPerCall ==
    /\ []((txn # <<>> /\ txn.op = "authenticate_user_with_lockout") =>
             <<users, login_attempts>> = txn.before)
    /\ [][(AuthBinderCommit /\ txn.raises) =>
             <<users', login_attempts'>> = txn.before]_vars

(***************************************************************************)
(* Idle expiry over time                                                   *)
(***************************************************************************)
\* C31 as stated: once a token was found idle-expired at time t, every later
\* validate_and_touch_token of it with now >= t returns invalid, as long as
\* a user still holds it.
C31_Original ==
    [][\A n \in 1..MaxTokens, t \in TokenTimes :
          (/\ validate_and_touch_token(<<n>>, t)
           /\ <<n>> \in DOMAIN expiries
           /\ expiries[<<n>>].at <= t
           /\ \E u \in DOMAIN users : users[u].token = <<n>>) =>
              /\ ret'.raised = None
              /\ ret'.result = FALSE]_vars

\* C31: once a token was found idle-expired at time t, every later
\* validate_and_touch_token of it with now >= t returns invalid and leaves
\* the rows alone, as long as a user still holds it and no call in between
\* presented a now earlier than t and found the token valid.
C31_IdleExpiryPermanent ==
    [][\A n \in 1..MaxTokens, t \in TokenTimes :
          (/\ validate_and_touch_token(<<n>>, t)
           /\ <<n>> \in DOMAIN expiries
           /\ ~expiries[<<n>>].revived
           /\ expiries[<<n>>].at <= t
           /\ \E u \in DOMAIN users : users[u].token = <<n>>) =>
              /\ ret'.raised = None
              /\ ret'.result = FALSE
              /\ users' = users]_vars

\* A token found idle-expired was checked again and refused again.
C31_Witness ==
    /\ ret.op = "validate_and_touch_token"
    /\ ret.raised = None
    /\ ret.result = FALSE
    /\ ret.token \in DOMAIN expiries
    /\ expiries[ret.token].rechecked
    /\ ~expiries[ret.token].revived
    /\ expiries[ret.token].at <= ret.at
    /\ \E u \in DOMAIN users : users[u].token = ret.token

(***************************************************************************)
(* Hint extraction                                                         *)
(***************************************************************************)
\* Whether the text holds, somewhere, a brace-delimited JSON object with the
\* recommended_tool member.
EmbedsHint(text) ==
    \E i \in DOMAIN text, j \in DOMAIN text :
        /\ i < j
        /\ text[i] = "{"
        /\ text[j] = "}"
        /\ \A k \in (i + 1)..(j - 1) : text[k] \in {"T", " "}
        /\ \E k \in (i + 1)..(j - 1) : text[k] = "T"

\* C32: a PydanticAiRunner.run_llm call whose backend answers with a text
\* never raises; it returns the recommended_tool value when the text holds a
\* JSON object with that member anywhere, other brace fragments before it or
\* not, and no hint when the text holds no such object.
C32_HintExtractedAnywhere ==
    (ret.op = "PydanticAiRunner.run_llm" /\ ret.output # <<>>) =>
        /\ ret.raised = None
        /\ ret.result[1].recommended_tool =
              IF EmbedsHint(ret.output[1]) THEN <<"read_text_file">> ELSE <<>>

(***************************************************************************)
(* Rate limiter: what a refusal tells, and what stays after one            *)
(***************************************************************************)
\* C33: a start_request refused because of the degraded state alone (the
\* user is below max_concurrent) does not report the plain false that a
\* user at max_concurrent gets.
C33_DegradedRejectionDistinct ==
    [][\A user \in RLUsers :
          (/\ start_request(user, FALSE)
           /\ global_degraded
           /\ ConcurrentOf(state, user) < max_concurrent) =>
              ret'.result # FALSE]_vars

\* The number of timestamps of a window less than window_secs older than t.
CountInsideWindow(ops, t) ==
    Cardinality({i \in DOMAIN ops : t - ops[i] < window})

\* C34 as stated: a record_operation that returns false for exceeding
\* max_ops leaves exactly max_ops + 1 timestamps in the user's window, and a
\* call that finds the limiter reset and max_ops or more of the user's
\* timestamps still inside the window returns false and sets degraded again.
C34_Original ==
    [][\A user \in RLUsers :
          (~global_degraded /\ record_operation(user)) =>
              /\ ret'.result = FALSE => Len(OpsOf(state', user)) = max_ops + 1
              /\ CountInsideWindow(OpsOf(state, user), now) >= max_ops
                    => (ret'.result = FALSE /\ global_degraded')]_vars

\* C34: a record_operation that returns false for exceeding max_ops keeps
\* its own timestamp: the window then ends with now and holds at least
\* max_ops + 1 timestamps, exactly max_ops + 1 when max_ops of the earlier
\* ones were less than window_secs old; and a call that finds the limiter
\* reset and max_ops or more of the user's timestamps less than window_secs
\* old returns false and sets degraded again.
C34_TrippingOperationKept ==
    [][\A user \in RLUsers :
          (~global_degraded /\ record_operation(user)) =>
              LET k == CountInsideWindow(OpsOf(state, user), now)
                  ops1 == OpsOf(state', user)
              IN  /\ ret'.result = FALSE =>
                        /\ ops1[Len(ops1)] = now
                        /\ Len(ops1) = k + 1
                        /\ Len(ops1) >= max_ops + 1
                        /\ global_degraded'
                  /\ k >= max_ops => (ret'.result = FALSE /\ global_degraded')]_vars

\* After an external reset, the next record_operation of the user whose
\* window still held the max_ops + 1 timestamps of the trip was refused and
\* set degraded again, leaving max_ops + 2.
C34_Witness ==
    /\ global_degraded
    /\ ret.op = "record_operation"
    /\ ret.result = FALSE
    /\ ret.pruned = 0
    /\ Len(OpsOf(state, ret.user)) = max_ops + 2
    /\ AllInsideWindow(ret.user)

(***************************************************************************)
(* The breaker and the backend                                             *)
(***************************************************************************)
\* C35: every run_llm call, of the wrapper and of the Pydantic AI runner,
\* invokes the backend exactly once whatever record_operation answers, and
\* when the backend answers the call returns its text.
C35_BackendCalledWhateverTheLimiterSays ==
    [][/\ \A username \in RLUsers, caller \in LLMCallerOutcomes :
             run_llm(username, caller) =>
                 /\ backend_calls' = backend_calls + 1
                 /\ ret'.recorded = <<~global_degraded'>>
                 /\ (~caller.raises /\ caller.text # <<>>) =>
                       (ret'.raised = None /\ ret'.result[1].text = caller.text[1])
       /\ \A username \in RLUsers, run_sync \in ShortAgentRunOutcomes :
             pydantic_run_llm(username, run_sync) =>
                 /\ backend_calls' = backend_calls + 1
                 /\ ret'.recorded = <<~global_degraded'>>
                 /\ ~run_sync.raises => ret'.raised = None]_vars

\* A call made while the limiter was already degraded by another user's
\* operations reached the backend and returned its text.
C35_Witness ==
    /\ global_degraded
    /\ ret.op = "run_llm"
    /\ ret.recorded = <<FALSE>>
    /\ ret.ops_at_backend = 0
    /\ ret.raised = None
    /\ ret.result # <<>>
    /\ ret.result[1].text = "Echo"
    /\ backend_calls = max_ops + 2

(***************************************************************************)
(* Lockout after lockout                                                   *)
(***************************************************************************)
\* C36: the count of a (username, ip) pair goes down only in a successful
\* call from that pair, so not when a lockout expires; and a failed call
\* that finds the account unlocked and the pair's count at 3 or more adds
\* one to it and sets lockout_until to now + 15 minutes at once.
C36_ExpiredLockoutKeepsCount ==
    [][/\ \A username \in authorized_users, ip \in Ips :
             CountOf(login_attempts', username, ip)
                     < CountOf(login_attempts, username, ip) =>
                 /\ ret'.op = "authenticate_user_with_lockout"
                 /\ ret'.user = username
                 /\ ret'.ip = ip
                 /\ ret'.result = TRUE
       /\ \A username \in authorized_users, password \in Passwords, ip \in Ips :
             (/\ authenticate_user_with_lockout(username, password, ip)
              /\ ~LockedOut(username)
              /\ ~binder(username, password)
              /\ CountOf(login_attempts, username, ip) >= LockoutThreshold) =>
                 /\ ret'.result = FALSE
                 /\ CountOf(login_attempts', username, ip) =
                        CountOf(login_attempts, username, ip) + 1
                 /\ LockoutUntilOf(users', username) = <<now + LockoutMinutes>>]_vars

\* After a lockout ran out, one more failure of the pair, its fourth, has
\* locked the account again.
C36_Witness ==
    /\ ret.op = "authenticate_user_with_lockout"
    /\ ret.result = FALSE
    /\ ret.binder_invoked
    /\ now >= LockoutMinutes
    /\ CountOf(login_attempts, ret.user, ret.ip) = LockoutThreshold + 1
    /\ LockoutUntilOf(users, ret.user) = <<now + LockoutMinutes>>

(***************************************************************************)
(* Concurrent logins                                                       *)
(***************************************************************************)
\* The failed binder checks the threads in S have committed since the last
\* successful login.
RECURSIVE FailedOf(_)
FailedOf(S) ==
    IF S = {} THEN 0
    ELSE LET t == CHOOSE x \in S : TRUE
         IN  (IF t \in DOMAIN threads THEN threads[t].failed ELSE 0)
                + FailedOf(S \ {t})

\* C37: under any interleaving of the threads' calls for one (username, ip)
\* the table holds at most one row of the pair, and when no call is in
\* progress its count is the number of failed binder checks since the last
\* success, so that three of them have set lockout_until.
C37_NoLostFailureNoDuplicateRow ==
    LET rows == {k \in DOMAIN login_attempts :
                    k[1] = ThreadUser /\ k[2] = AuthThreadIp}
    IN  /\ Cardinality(rows) <= 1
        /\ (\A t \in DOMAIN threads : threads[t].pc = "idle") =>
              /\ \A k \in rows : login_attempts[k].count = FailedOf(Threads)
              /\ FailedOf(Threads) >= LockoutThreshold =>
                    users[ThreadUser].lockout_until # <<>>

C39_SlotReleasedOnlyByFinish ==
    /\ [][\A user \in RLUsers :
             ConcurrentOf(state', user) < ConcurrentOf(state, user) =>
                 /\ finish_request(user)
                 /\ ConcurrentOf(state', user) = ConcurrentOf(state, user) - 1]_vars
    /\ [][\A user \in RLUsers :
             (ConcurrentOf(state, user) = max_concurrent /\ ~finish_request(user))
                 => ConcurrentOf(state', user) = max_concurrent]_vars
    /\ [][\A user \in RLUsers, is_login \in BOOLEAN :
             (ConcurrentOf(state, user) = max_concurrent
              /\ start_request(user, is_login)) => ret'.result = FALSE]_vars

\* C39 witness: a user took max_concurrent slots, operations were recorded
\* and time has passed since, the limiter is not degraded, and a login
\* start_request for the user has just been refused.
C39_Witness ==
    /\ ret.op = "start_request"
    /\ ret.is_login
    /\ ret.result = FALSE
    /\ ~global_degraded
    /\ ConcurrentOf(state, ret.user) = max_concurrent
    /\ OpsOf(state, ret.user) # <<>>
    /\ now > 0

(***************************************************************************)
(* No tool runs unaudited                                                  *)
(***************************************************************************)
\* C40: the executor is called only by an invocation whose audit row is
\* already in the table (the row of that invocation, left as it is by the
\* step that makes the call); in every state where a call of the executor
\* has started the row is there, and the executor has never been called
\* more often than there are rows; when the first commit raises, no row is
\* written and the executor is not called.
C40_NoToolRunsUnaudited ==
    /\ [][executor_calls' # executor_calls =>
             /\ txn # <<>>
             /\ txn.row \in DOMAIN tool_invocations
             /\ tool_invocations[txn.row].tool_name = txn.tool_name
             /\ tool_invocations' = tool_invocations
             /\ executor_calls' = executor_calls + 1]_vars
    /\ []((txn # <<>> /\ txn.started) => txn.row \in DOMAIN tool_invocations)
    /\ [](executor_calls <= Len(tool_invocations))
    /\ [][\A tool_name \in ToolNames, was_explicit \in BOOLEAN,
             is_llm_request \in BOOLEAN, user_confirmed \in OptionalBools :
             ToolInsertRaises(tool_name, was_explicit, is_llm_request, user_confirmed)
                 => /\ executor_calls' = executor_calls
                    /\ tool_invocations' = tool_invocations
                    /\ txn' = <<>>]_vars

\* C40 witness: an earlier call raised at its first commit or not, and now
\* the executor has been called and has not returned: the row of the
\* invocation is in the table with no outcome yet.
C40_Witness ==
    /\ txn # <<>>
    /\ txn.started
    /\ executor_calls = Len(tool_invocations)
    /\ tool_invocations[txn.row] =
           NewInvocation(txn.tool_name, txn.was_explicit, txn.user_confirmed)

====
